---------------------------- MODULE Spec2Model ----------------------------
(***************************************************************************)
(* A model of ros-exporter: the command session (pkg/mikrotik/client.go),  *)
(* the subsystem collectors and the scrape orchestrator                    *)
(* (pkg/metrics/collector.go, MikrotikCollector.Collect).                  *)
(*                                                                         *)
(* Texts the code inspects character by character (names, numbers,         *)
(* durations) are sequences of one-character strings; field keys and       *)
(* command words, which the code only compares, are TLA+ strings.          *)
(* Durations are counted in milliseconds, float values in thousandths.     *)
(***************************************************************************)
EXTENDS Integers, Sequences, FiniteSets, TLC

(***************************************************************************)
(* Bounds of the model.                                                    *)
(***************************************************************************)
\* longest /interface/print reply (sentences) the device is given
MaxIfaces == 2
\* longest /interface/wireless/print reply (sentences)
MaxWlan == 2
\* most commands of one scrape the device answers with an error or not at all
\* while it is reachable
MaxFaults == 1
\* most API calls (Connect, Run, Close) made on one session in SpecSession
MaxCalls == 3

\* the zero value of Client.client: no connection
NoConn == 0

\* a nil error / nil pointer
Nil == <<>>

(***************************************************************************)
(* Strings                                                                 *)
(***************************************************************************)
UpperChars == <<"A","B","C","D","E","F","G","H","I","J","K","L","M",
                "N","O","P","Q","R","S","T","U","V","W","X","Y","Z">>
LowerChars == <<"a","b","c","d","e","f","g","h","i","j","k","l","m",
                "n","o","p","q","r","s","t","u","v","w","x","y","z">>
Digits == <<"0","1","2","3","4","5","6","7","8","9">>

IsDigit(c) == \E i \in DOMAIN Digits : Digits[i] = c
DigitVal(c) == (CHOOSE i \in DOMAIN Digits : Digits[i] = c) - 1

LowerChar(c) ==
  IF \E i \in DOMAIN UpperChars : UpperChars[i] = c
  THEN LowerChars[CHOOSE i \in DOMAIN UpperChars : UpperChars[i] = c]
  ELSE c

\* strings.ToLower
ToLower(s) == [i \in DOMAIN s |-> LowerChar(s[i])]

\* strings.Contains on texts
Contains(s, sub) ==
  \E i \in 0..(Len(s) - Len(sub)) : SubSeq(s, i + 1, i + Len(sub)) = sub

\* re.Map[key]: a missing key reads as the empty string
Get(m, key) == IF key \in DOMAIN m THEN m[key] ELSE <<>>

\* value, ok := re.Map[key]
Has(m, key) == key \in DOMAIN m

(***************************************************************************)
(* Errors.  An error is the sequence of the message parts it prints;       *)
(* fmt.Errorf("...: %w", err) puts a part in front and keeps the rest, so  *)
(* strings.Contains(err.Error(), part) is a membership test on the parts.  *)
(***************************************************************************)
ErrNoSuchCommand == <<"no such command">>
ErrUnknownCommandName == <<"unknown command name">>
ErrDisabled == <<"disabled">>
ErrFailure == <<"failure">>
ErrDial == <<"dial tcp: connection refused">>
ErrTimeout == <<"command timeout after">>
ErrClosed == <<"use of closed network connection">>

\* the error replies (!trap) a device gives to a command
DeviceErrors == {ErrNoSuchCommand, ErrUnknownCommandName, ErrDisabled, ErrFailure}

Wrap(prefix, err) == <<prefix>> \o err
ErrContains(err, part) == \E i \in DOMAIN err : err[i] = part

(***************************************************************************)
(* Numbers.  uint64 arithmetic is kept at a scaled-down width of UintBits  *)
(* bits: parsing fails at the modulus, subtraction and multiplication      *)
(* wrap around it.                                                         *)
(***************************************************************************)
UintBits == 20
UintMod == 2 ^ UintBits

RECURSIVE NatOf(_)
NatOf(s) == IF s = <<>> THEN 0
            ELSE NatOf(SubSeq(s, 1, Len(s) - 1)) * 10 + DigitVal(s[Len(s)])

AllDigits(s) == \A i \in DOMAIN s : IsDigit(s[i])

\* strconv.ParseUint(s, 10, 64)
\* (a syntax error gives 0, a range error the largest value)
ParseUint(s) ==
  IF s = <<>> \/ ~AllDigits(s)
  THEN [val |-> 0, err |-> <<"strconv.ParseUint: invalid syntax">>]
  ELSE IF Len(s) > 9 \/ NatOf(s) >= UintMod
  THEN [val |-> UintMod - 1, err |-> <<"strconv.ParseUint: value out of range">>]
  ELSE [val |-> NatOf(s), err |-> Nil]

\* the largest signed integer of the width
IntMax == UintMod \div 2 - 1

\* strconv.ParseInt(s, 10, 64) and strconv.Atoi(s): an optional sign, then
\* digits (a syntax error gives 0, a range error the nearest value)
ParseInt(s) ==
  LET signed == s # <<>> /\ s[1] \in {"+", "-"}
      minus == signed /\ s[1] = "-"
      body == IF signed THEN SubSeq(s, 2, Len(s)) ELSE s
  IN IF body = <<>> \/ ~AllDigits(body)
     THEN [val |-> 0, err |-> <<"strconv.ParseInt: invalid syntax">>]
     ELSE IF Len(body) > 9 \/ NatOf(body) > IntMax
     THEN [val |-> IF minus THEN 0 - IntMax - 1 ELSE IntMax,
           err |-> <<"strconv.ParseInt: value out of range">>]
     ELSE [val |-> IF minus THEN 0 - NatOf(body) ELSE NatOf(body), err |-> Nil]

\* strconv.ParseFloat(s, 64) on decimal texts, in thousandths
ParseFloat(s) ==
  LET signed == s # <<>> /\ s[1] \in {"+", "-"}
      body == IF signed THEN SubSeq(s, 2, Len(s)) ELSE s
      dots == {i \in DOMAIN body : body[i] = "."}
      dot == IF dots = {} THEN Len(body) + 1 ELSE CHOOSE i \in dots : TRUE
      whole == SubSeq(body, 1, dot - 1)
      frac == SubSeq(body, dot + 1, Len(body))
      frac3 == SubSeq(frac \o <<"0", "0", "0">>, 1, 3)
      milli == NatOf(whole) * 1000 + NatOf(frac3)
  IN IF /\ Cardinality(dots) <= 1
        /\ Len(whole) + Len(frac) >= 1
        /\ AllDigits(whole) /\ AllDigits(frac)
        /\ Len(whole) <= 6
     THEN [val |-> IF signed /\ s[1] = "-" THEN 0 - milli ELSE milli, err |-> Nil]
     ELSE [val |-> 0, err |-> <<"strconv.ParseFloat">>]

\* parseBytes
parseBytes(byteStr) ==
  IF byteStr = <<>> THEN [val |-> 0, err |-> <<"empty byte string">>]
  ELSE LET r == ParseUint(byteStr)
       IN IF r.err # Nil
          THEN [val |-> 0, err |-> Wrap("could not parse byte value", r.err)]
          ELSE [val |-> r.val, err |-> Nil]

\* parseBool
parseBool(boolStr) == ToLower(boolStr) = <<"t", "r", "u", "e">>

\* time.Second, time.Minute, time.Hour in milliseconds
Second == 1000
Minute == 60 * Second
Hour == 60 * Minute

\* the loop of parseMikrotikDuration from character i on, with the duration
\* summed so far and the digits buffered in currentVal
RECURSIVE DurationLoop(_, _, _, _)
DurationLoop(str, i, total, currentVal) ==
  IF i > Len(str)
  THEN IF Len(currentVal) > 0
       THEN [val |-> 0, err |-> <<"trailing number without unit">>]
       ELSE [val |-> total, err |-> Nil]
  ELSE LET r == str[i] IN
    IF IsDigit(r) \/ r = "."
    THEN DurationLoop(str, i + 1, total, Append(currentVal, r))
    ELSE IF currentVal = <<>>
    THEN [val |-> 0, err |-> <<"invalid duration format near unit">>]
    ELSE IF r = "s" /\ ParseFloat(currentVal).err = Nil
    THEN DurationLoop(str, i + 1, total + ParseFloat(currentVal).val, <<>>)
    ELSE LET v == ParseInt(currentVal) IN
      IF v.err # Nil
      THEN [val |-> 0, err |-> Wrap("could not parse value", v.err)]
      ELSE CASE r = "w" -> DurationLoop(str, i + 1, total + v.val * 7 * 24 * Hour, <<>>)
             [] r = "d" -> DurationLoop(str, i + 1, total + v.val * 24 * Hour, <<>>)
             [] r = "h" -> DurationLoop(str, i + 1, total + v.val * Hour, <<>>)
             [] r = "m" -> DurationLoop(str, i + 1, total + v.val * Minute, <<>>)
             [] r = "s" -> DurationLoop(str, i + 1, total + v.val * Second, <<>>)
             [] OTHER -> [val |-> 0, err |-> <<"unknown duration unit">>]

\* variant: the empty text is a duration of zero
parseMikrotikDurationOfAny(durationStr) == DurationLoop(durationStr, 1, 0, <<>>)

parseMikrotikDuration(durationStr) ==
  IF durationStr = <<>> THEN [val |-> 0, err |-> <<"empty duration string">>]
  ELSE DurationLoop(durationStr, 1, 0, <<>>)

(***************************************************************************)
(* The command session (Client).  A session operation maps a world w to    *)
(* the world after it.  w.client is Client.client; the other fields are    *)
(* the device's side: w.opened counts the connections it accepted (the     *)
(* n-th has id n), w.live is the set of connections still open, w.issued   *)
(* the commands it received, w.now its clock (one tick per dial or         *)
(* command), w.down whether it has become unreachable, w.faults how many   *)
(* commands it failed while reachable.  w.called is the log of the calls   *)
(* of Run and RunArgs: the command, the error returned and the number of   *)
(* sentences of the reply.                                                 *)
(***************************************************************************)

\* what the device does with one command: it replies (with sentences re),
\* answers an error (err), stays silent until the timer fires ("timeout"),
\* or becomes unreachable for the rest of the scrape ("down": a dial fails,
\* a command sent on a connection already open gets no answer)
Behaviours(replies) ==
  [out : {"reply"}, re : replies, err : {Nil}]
    \cup [out : {"error"}, re : {<<>>}, err : DeviceErrors]
    \cup [out : {"timeout", "down"}, re : {<<>>}, err : {Nil}]

\* the behaviour of a device that accepts a dial
Reachable == [out |-> "reply", re |-> <<>>, err |-> Nil]

\* the behaviour written for a command that is never sent, and that of a
\* device already unreachable
Unused == [out |-> "down", re |-> <<>>, err |-> Nil]

\* the answers of a device that lacks a feature
Absent == {ErrNoSuchCommand, ErrDisabled}

\* the device, which answered the last command that it lacks the feature,
\* answers the same of the next: a device without optional packages
StillAbsent(w, d) ==
  /\ w.called # <<>> /\ w.called[Len(w.called)].err \in Absent
  /\ d.out = "error" /\ d.err \in Absent

\* the device meets behaviour d: an unreachable device stays unreachable;
\* the faults counted are the commands that fail, a run of "feature absent"
\* answers being one
Meet(w, d) ==
  [w EXCEPT !.down = @ \/ d.out = "down",
            !.faults = IF ~w.down /\ d.out \in {"error", "timeout"}
                          /\ ~StillAbsent(w, d)
                       THEN @ + 1 ELSE @]

\* the behaviour the device shows
Shown(w, d) == IF w.down THEN Unused ELSE d

\* Client.Connect: dials whatever Client.client holds
Connect(w) ==
  IF w.down
  THEN [w |-> [w EXCEPT !.now = @ + 1], err |-> ErrDial]
  ELSE [w |-> [w EXCEPT !.client = w.opened + 1,
                        !.opened = @ + 1,
                        !.live = @ \cup {w.opened + 1},
                        !.now = @ + 1],
        err |-> Nil]

\* Client.Close
\* a teardown that closes the connection and keeps the reference to it
CloseKeepsReference(w) ==
  IF w.client # NoConn
  THEN [w EXCEPT !.live = @ \ {w.client}]
  ELSE w

Close(w) ==
  IF w.client # NoConn
  THEN [w EXCEPT !.live = @ \ {w.client}, !.client = NoConn]
  ELSE w

\* the lazy connect at the head of Run and RunArgs
EnsureConnected(w) ==
  IF w.client = NoConn THEN Connect(w) ELSE [w |-> w, err |-> Nil]

\* a command: its words, and the text spliced into its =numbers= word
Cmd(words) == [words |-> words, numbers |-> <<>>]

\* the device receives cmd on the session's connection
Send(w, cmd) ==
  [w EXCEPT !.issued = Append(@, cmd), !.now = @ + 1]

\* the select of Run and RunArgs once the command is out
Select(w, d) ==
  CASE d.out = "reply" -> [w |-> w, re |-> d.re, err |-> Nil]
    [] d.out = "error" -> [w |-> Close(w), re |-> <<>>, err |-> d.err]
    [] d.out \in {"timeout", "down"} ->
         [w |-> Close(w), re |-> <<>>, err |-> ErrTimeout]

\* the body of Client.Run and Client.RunArgs: the lazy connect, the command
\* sent and the select
Exchange(w, cmd, d) ==
  LET c == EnsureConnected(Meet(w, d))
  IN IF c.err # Nil
     THEN [w |-> c.w, re |-> <<>>, err |-> c.err]
     ELSE Select(Send(c.w, cmd), Shown(c.w, d))

\* the call that returned r, written to the log of calls
Logged(r, cmd) ==
  [r EXCEPT !.w.called =
     Append(@, [cmd |-> cmd, err |-> r.err, records |-> Len(r.re)])]

\* Client.Run and Client.RunArgs as their caller sees them: the world after
\* the call, the reply's sentences and the error
Run(w, cmd, d) == Logged(Exchange(w, cmd, d), cmd)

(***************************************************************************)
(* Metrics sent on the Prometheus channel.                                 *)
(***************************************************************************)
Metric(desc, value, labels) == [desc |-> desc, value |-> value, labels |-> labels]

\* uint64 subtraction and multiplication
USub(a, b) == (a - b) % UintMod
UMul(a, b) == (a * b) % UintMod

(***************************************************************************)
(* Sample texts of the device's replies.                                   *)
(***************************************************************************)
TxtEther1 == <<"e", "t", "h", "e", "r", "1">>
TxtEther == <<"e", "t", "h", "e", "r">>
TxtPppoeOut == <<"p", "p", "p", "o", "e", "-", "o", "u", "t">>
TxtPppOut == <<"P", "P", "P", "-", "o", "u", "t">>
TxtTrue == <<"t", "r", "u", "e">>
TxtUplink == <<"u", "p">>
TxtMac == <<"0", "0", ":", "0", "1">>

(***************************************************************************)
(* System resources and routerboard                                        *)
(***************************************************************************)
CmdSystemResource == Cmd(<<"/system/resource/print">>)
CmdRouterboard == Cmd(<<"/system/routerboard/print">>)

\* a complete /system/resource/print sentence
SysSentenceA ==
  ("uptime" :> <<"1", "d", "2", "h">>) @@ ("free-memory" :> <<"3", "0", "0">>)
    @@ ("total-memory" :> <<"5", "1", "2">>) @@ ("cpu-load" :> <<"7">>)
    @@ ("free-hdd-space" :> <<"2">>) @@ ("total-hdd-space" :> <<"8">>)
    @@ ("board-name" :> <<"h", "E", "X">>)
\* one with a malformed uptime and no totals
SysSentenceB ==
  ("uptime" :> <<"1", "0">>) @@ ("free-memory" :> <<"3", "0", "0">>)
    @@ ("cpu-load" :> <<"x">>) @@ ("free-hdd-space" :> <<"2">>)

SysReplies == {<<>>, <<SysSentenceA>>}

\* Client.GetSystemResources
GetSystemResources(w, d) ==
  LET r == Run(w, CmdSystemResource, d) IN
  IF r.err # Nil
  THEN [w |-> r.w, res |-> <<>>, err |-> Wrap("failed to get system resources", r.err)]
  ELSE IF Len(r.re) = 0
  THEN [w |-> r.w, res |-> <<>>, err |-> <<"no system resource data received">>]
  ELSE LET res == r.re[1] IN
    [w |-> r.w,
     res |-> << [Uptime |-> parseMikrotikDuration(Get(res, "uptime")).val,
                 FreeMemory |-> parseBytes(Get(res, "free-memory")).val,
                 TotalMemory |-> parseBytes(Get(res, "total-memory")).val,
                 CPULoad |-> ParseUint(Get(res, "cpu-load")).val,
                 FreeHDDSpace |-> UMul(parseBytes(Get(res, "free-hdd-space")).val, 1024),
                 TotalHDDSpace |-> UMul(parseBytes(Get(res, "total-hdd-space")).val, 1024),
                 BoardName |-> Get(res, "board-name"),
                 Model |-> Get(res, "model"),
                 SerialNumber |-> Get(res, "serial-number")] >>,
     err |-> Nil]

RbSentenceA ==
  ("board-name" :> <<"h", "E", "X">>) @@ ("model" :> <<"R", "B">>)
    @@ ("serial-number" :> <<"7">>) @@ ("current-firmware" :> <<"7", ".", "1">>)

RbReplies == {<<RbSentenceA>>}

\* Client.GetRouterboard
GetRouterboard(w, d) ==
  LET r == Run(w, CmdRouterboard, d) IN
  IF r.err # Nil
  THEN [w |-> r.w, res |-> <<>>, err |-> Wrap("failed to get routerboard info", r.err)]
  ELSE IF Len(r.re) = 0
  THEN [w |-> r.w, res |-> <<>>, err |-> <<"no routerboard data received">>]
  ELSE LET rb == r.re[1] IN
    [w |-> r.w,
     res |-> << [BoardName |-> Get(rb, "board-name"),
                 Model |-> Get(rb, "model"),
                 SerialNumber |-> Get(rb, "serial-number"),
                 FirmwareType |-> Get(rb, "firmware-type"),
                 FactoryFirmware |-> Get(rb, "factory-firmware"),
                 CurrentFirmware |-> Get(rb, "current-firmware"),
                 UpgradeFirmware |-> Get(rb, "upgrade-firmware")] >>,
     err |-> Nil]

(***************************************************************************)
(* Interfaces                                                              *)
(***************************************************************************)
CmdInterfacePrint == Cmd(<<"/interface/print">>)
CmdInterfaceDetail == Cmd(<<"/interface/print", "detail", "without-paging">>)
CmdInterfaceStats == Cmd(<<"/interface/print", "stats", "without-paging">>)

\* variant: the test without lowering the case
IsPPPCaseSensitive(name, ifaceType) ==
  \/ Contains(ifaceType, <<"p", "p", "p">>)
  \/ Contains(name, <<"p", "p", "p">>)

\* the test that leaves PPP and PPPoE interfaces to the PPP collector
IsPPP(name, ifaceType) ==
  \/ Contains(ToLower(ifaceType), <<"p", "p", "p">>)
  \/ Contains(ToLower(ifaceType), <<"p", "p", "p", "o", "e">>)
  \/ Contains(ToLower(name), <<"p", "p", "p">>)
  \/ Contains(ToLower(name), <<"p", "p", "p", "o", "e">>)

NewInterfaceStat(name, ifaceType) ==
  [Name |-> name, Type |-> ifaceType, Comment |-> <<>>, MACAddress |-> <<>>,
   Running |-> FALSE, Disabled |-> FALSE,
   RxBytes |-> 0, TxBytes |-> 0, RxPackets |-> 0, TxPackets |-> 0,
   RxErrors |-> 0, TxErrors |-> 0, RxDrops |-> 0, TxDrops |-> 0]

\* the first loop of GetInterfaceStats: the interfaces kept, in reply order
RECURSIVE InitialStats(_)
InitialStats(re) ==
  IF re = <<>> THEN <<>>
  ELSE LET name == Get(re[1], "name")
           ifaceType == Get(re[1], "type")
           rest == InitialStats(Tail(re))
       IN IF name = <<>> THEN rest
          ELSE IF IsPPP(name, ifaceType) THEN rest
          ELSE <<NewInterfaceStat(name, ifaceType)>> \o rest

\* ifaceMap[name]: the last kept interface of that name (0: not in the map)
IfaceMap(stats, name) ==
  LET at == {i \in DOMAIN stats : stats[i].Name = name}
  IN IF at = {} THEN 0 ELSE CHOOSE i \in at : \A j \in at : j <= i

\* the detail loop
RECURSIVE MergeDetail(_, _)
MergeDetail(stats, re) ==
  IF re = <<>> THEN stats
  ELSE LET i == IfaceMap(stats, Get(re[1], "name"))
           merged == IF i = 0 THEN stats
                     ELSE [stats EXCEPT ![i].Comment = Get(re[1], "comment"),
                                        ![i].MACAddress = Get(re[1], "mac-address"),
                                        ![i].Running = parseBool(Get(re[1], "running")),
                                        ![i].Disabled = parseBool(Get(re[1], "disabled"))]
       IN MergeDetail(merged, Tail(re))

\* variant: the last field of fields that the sentence holds non-empty
RECURSIVE ResolveCounterLastWins(_, _, _)
ResolveCounterLastWins(m, fields, old) ==
  IF fields = <<>> THEN old
  ELSE IF Has(m, fields[Len(fields)]) /\ m[fields[Len(fields)]] # <<>>
       THEN parseBytes(m[fields[Len(fields)]]).val
       ELSE ResolveCounterLastWins(m, SubSeq(fields, 1, Len(fields) - 1), old)

\* one alias loop of the statistics merge: the value of the first field of
\* fields that the sentence holds non-empty, else the counter as it was
RECURSIVE ResolveCounter(_, _, _)
ResolveCounter(m, fields, old) ==
  IF fields = <<>> THEN old
  ELSE IF Has(m, fields[1]) /\ m[fields[1]] # <<>>
       THEN parseBytes(m[fields[1]]).val
       ELSE ResolveCounter(m, Tail(fields), old)

rxBytesFields == <<"rx-byte", "rx-bytes", "bytes-in">>
txBytesFields == <<"tx-byte", "tx-bytes", "bytes-out">>
rxPacketsFields == <<"rx-packet", "rx-packets", "packets-in">>
txPacketsFields == <<"tx-packet", "tx-packets", "packets-out">>
rxErrorsFields == <<"rx-error", "rx-errors", "errors-in">>
txErrorsFields == <<"tx-error", "tx-errors", "errors-out">>
rxDropsFields == <<"rx-drop", "rx-drops", "drops-in">>
txDropsFields == <<"tx-drop", "tx-drops", "drops-out">>

\* the statistics loop
RECURSIVE MergeStats(_, _)
MergeStats(stats, re) ==
  IF re = <<>> THEN stats
  ELSE LET m == re[1]
           i == IfaceMap(stats, Get(m, "name"))
           merged ==
             IF i = 0 THEN stats
             ELSE [stats EXCEPT
                     ![i].RxBytes = ResolveCounter(m, rxBytesFields, @),
                     ![i].TxBytes = ResolveCounter(m, txBytesFields, @),
                     ![i].RxPackets = ResolveCounter(m, rxPacketsFields, @),
                     ![i].TxPackets = ResolveCounter(m, txPacketsFields, @),
                     ![i].RxErrors = ResolveCounter(m, rxErrorsFields, @),
                     ![i].TxErrors = ResolveCounter(m, txErrorsFields, @),
                     ![i].RxDrops = ResolveCounter(m, rxDropsFields, @),
                     ![i].TxDrops = ResolveCounter(m, txDropsFields, @)]
       IN MergeStats(merged, Tail(re))

\* variant: a failed statistics command fails the collector
StatsFatal(w, stats, statsErr) ==
  [w |-> w, stats |-> <<>>, err |-> Wrap("failed to get interface stats", statsErr)]

\* what GetInterfaceStats returns when the statistics command failed
StatsUnavailable(w, stats, statsErr) == [w |-> w, stats |-> stats, err |-> Nil]

\* Client.GetInterfaceStats; d1, d2, d3 are the device's behaviour on the
\* list, detail and statistics commands
GetInterfaceStats(w, d1, d2, d3) ==
  LET initial == Run(w, CmdInterfacePrint, d1) IN
  IF initial.err # Nil
  THEN [w |-> initial.w, stats |-> <<>>,
        err |-> Wrap("failed to get initial interface names/types", initial.err)]
  ELSE LET stats0 == InitialStats(initial.re) IN
    IF Len(stats0) = 0
    THEN [w |-> initial.w, stats |-> <<>>, err |-> Nil]
    ELSE LET detail == Run(initial.w, CmdInterfaceDetail, d2)
             stats1 == IF detail.err # Nil THEN stats0
                       ELSE MergeDetail(stats0, detail.re)
             statsReply == Run(detail.w, CmdInterfaceStats, d3)
         IN IF statsReply.err # Nil
            THEN StatsUnavailable(statsReply.w, stats1, statsReply.err)
            ELSE IF Len(statsReply.re) = 0
            THEN [w |-> statsReply.w, stats |-> stats1, err |-> Nil]
            ELSE [w |-> statsReply.w, stats |-> MergeStats(stats1, statsReply.re),
                  err |-> Nil]

\* the i-th interface of the device: ether<i> for odd i, a PPPoE client
\* pppoe-out<i> for even i
IfaceSentence(i) ==
  IF i % 2 = 1
  THEN [name |-> Append(TxtEther, Digits[i + 1]), type |-> TxtEther]
  ELSE [name |-> Append(TxtPppoeOut, Digits[i + 1]), type |-> TxtPppOut]

\* the /interface/print replies of a device with no and with MaxIfaces interfaces
IfaceListReplies == {[i \in 1..k |-> IfaceSentence(i)] : k \in {0, MaxIfaces}}

DetailSentence ==
  [name |-> TxtEther1, comment |-> TxtUplink, running |-> TxtTrue]
    @@ ("mac-address" :> TxtMac)

DetailReplies == {<<DetailSentence>>}

\* statistics in the newest field names, and in aliases with an empty
\* newer field in front
StatsSentenceA ==
  [name |-> TxtEther1] @@ ("rx-byte" :> <<"4", "2">>) @@ ("tx-byte" :> <<"7">>)
    @@ ("rx-packet" :> <<"3">>) @@ ("tx-packet" :> <<"4">>)
    @@ ("rx-error" :> <<"1">>) @@ ("tx-error" :> <<"2">>)
    @@ ("rx-drop" :> <<"5">>) @@ ("tx-drop" :> <<"6">>)
StatsSentenceB ==
  [name |-> TxtEther1] @@ ("rx-byte" :> <<>>) @@ ("bytes-in" :> <<"4", "2">>)
    @@ ("tx-bytes" :> <<"x">>) @@ ("bytes-out" :> <<"9">>)

StatsReplies == {<<StatsSentenceA>>}

(***************************************************************************)
(* System health                                                           *)
(***************************************************************************)
CmdSystemHealth == Cmd(<<"/system/health/print">>)

\* strings.TrimRight(s, cutset)
RECURSIVE TrimRight(_, _)
TrimRight(s, cutset) ==
  IF s # <<>> /\ s[Len(s)] \in cutset
  THEN TrimRight(SubSeq(s, 1, Len(s) - 1), cutset)
  ELSE s

\* the parseFloat closure of GetSystemHealth
HealthFloat(healthData, key) ==
  LET valStr == Get(healthData, key) IN
  IF valStr = <<>> THEN 0
  ELSE ParseFloat(TrimRight(valStr, {"C", "V", "W", " ", "R", "P", "M"})).val

\* the parseUint closure of GetSystemHealth
HealthUint(healthData, key) ==
  LET valStr == Get(healthData, key) IN
  IF valStr = <<>> THEN 0
  ELSE LET r == ParseUint(TrimRight(valStr, {" ", "R", "P", "M"}))
       IN IF r.err # Nil THEN 0 ELSE r.val

\* the errors GetSystemHealth takes for "not supported"
HealthUnsupported(err) ==
  ErrContains(err, "no such command") \/ ErrContains(err, "unknown command name")

\* Client.GetSystemHealth
GetSystemHealth(w, d) ==
  LET r == Run(w, CmdSystemHealth, d) IN
  IF r.err # Nil
  THEN IF HealthUnsupported(r.err)
       THEN [w |-> r.w, res |-> <<>>, err |-> Nil]
       ELSE [w |-> r.w, res |-> <<>>, err |-> Wrap("failed to get system health", r.err)]
  ELSE IF Len(r.re) = 0
  THEN [w |-> r.w, res |-> <<>>, err |-> Nil]
  ELSE LET healthData == r.re[1]
           temp0 == HealthFloat(healthData, "temperature")
           boardTemp0 == HealthFloat(healthData, "board-temperature")
           boardTemp == IF boardTemp0 = 0
                        THEN HealthFloat(healthData, "cpu-temperature")
                        ELSE boardTemp0
           temp == IF /\ temp0 = 0 /\ boardTemp # 0
                      /\ Get(healthData, "temperature") = <<>>
                      /\ Get(healthData, "cpu-temperature") # <<>>
                   THEN boardTemp ELSE temp0
       IN [w |-> r.w,
           res |-> << [Temperature |-> temp,
                       BoardTemperature |-> boardTemp,
                       Voltage |-> HealthFloat(healthData, "voltage"),
                       Current |-> HealthFloat(healthData, "current"),
                       PowerConsumed |-> HealthFloat(healthData, "power-consumption"),
                       FanSpeed |-> HealthUint(healthData, "fan1-speed")] >>,
           err |-> Nil]

HealthSentenceA ==
  [temperature |-> <<"4", "5", "C">>, voltage |-> <<"2", "4", ".", "5", "V">>]
    @@ ("fan1-speed" :> <<"4", "0", "0", "R", "P", "M">>)

HealthReplies == {<<>>, <<HealthSentenceA>>}

(***************************************************************************)
(* BGP peers                                                               *)
(***************************************************************************)
CmdBGPPeer == Cmd(<<"/routing/bgp/peer/print", "without-paging">>)
CmdBGPPeerLegacy == Cmd(<<"/ip/bgp/peer/print", "without-paging">>)

\* variant: only "no such command" stands for "feature absent"
FeatureAbsentUnlessDisabled(err) == ErrContains(err, "no such command")

\* the errors the optional collectors take for "feature absent"
FeatureAbsent(err) ==
  ErrContains(err, "no such command") \/ ErrContains(err, "disabled")

\* an alias loop over strconv.ParseUint
RECURSIVE ResolveUint(_, _)
ResolveUint(m, fields) ==
  IF fields = <<>> THEN 0
  ELSE IF Has(m, fields[1]) /\ m[fields[1]] # <<>>
       THEN ParseUint(m[fields[1]]).val
       ELSE ResolveUint(m, Tail(fields))

\* an alias loop over texts
RECURSIVE ResolveText(_, _)
ResolveText(m, fields) ==
  IF fields = <<>> THEN <<>>
  ELSE IF Has(m, fields[1]) /\ m[fields[1]] # <<>>
       THEN m[fields[1]]
       ELSE ResolveText(m, Tail(fields))

prefixCountFields == <<"prefix-count", "prefixes", "prefixes-count", "received-prefixes">>
updatesSentFields == <<"updates-sent", "sent-updates", "updates-out">>
updatesRecvFields == <<"updates-received", "received-updates", "updates-in">>
withdrawsSentFields == <<"withdraws-sent", "sent-withdraws", "withdraws-out">>
withdrawsRecvFields == <<"withdraws-received", "received-withdraws", "withdraws-in">>
stateFields == <<"state", "connection-state", "status">>
disabledFields == <<"disabled", "inactive">>

\* the uptime of one peer sentence
BGPUptime(m) ==
  IF Get(m, "uptime") # <<>>
  THEN parseMikrotikDuration(Get(m, "uptime")).val
  ELSE IF Has(m, "established-for") /\ m["established-for"] # <<>>
  THEN parseMikrotikDuration(m["established-for"]).val
  ELSE 0

\* the peer loop of GetBGPPeerStats
RECURSIVE BGPPeers(_)
BGPPeers(re) ==
  IF re = <<>> THEN <<>>
  ELSE LET m == re[1] IN
    IF Get(m, "name") = <<>> THEN BGPPeers(Tail(re))
    ELSE << [Name |-> Get(m, "name"),
             Instance |-> Get(m, "instance"),
             RemoteAddress |-> Get(m, "remote-address"),
             RemoteAS |-> Get(m, "remote-as"),
             LocalAddress |-> Get(m, "local-address"),
             LocalRole |-> Get(m, "local-role"),
             RemoteRole |-> Get(m, "remote-role"),
             State |-> ResolveText(m, stateFields),
             Uptime |-> BGPUptime(m),
             PrefixCount |-> ResolveUint(m, prefixCountFields),
             UpdatesSent |-> ResolveUint(m, updatesSentFields),
             UpdatesRecv |-> ResolveUint(m, updatesRecvFields),
             WithdrawsSent |-> ResolveUint(m, withdrawsSentFields),
             WithdrawsRecv |-> ResolveUint(m, withdrawsRecvFields),
             Disabled |-> parseBool(ResolveText(m, disabledFields))] >>
         \o BGPPeers(Tail(re))

\* variant: the error names the newer command whichever was attempted last
AttemptedFirst(retry) == CmdBGPPeer

\* cmd when GetBGPPeerStats tests the error of its last attempt
Attempted(retry) == IF retry THEN CmdBGPPeerLegacy ELSE CmdBGPPeer

\* Client.GetBGPPeerStats; d1 and d2 are the device's behaviour on the newer
\* and on the legacy command
GetBGPPeerStats(w, d1, d2) ==
  LET first == Run(w, CmdBGPPeer, d1)
      retry == first.err # Nil /\ FeatureAbsent(first.err)
      last == IF retry THEN Run(first.w, CmdBGPPeerLegacy, d2) ELSE first
      cmd == Attempted(retry)
  IN IF last.err # Nil
     THEN IF FeatureAbsent(last.err)
          THEN [w |-> last.w, stats |-> <<>>, err |-> Nil]
          ELSE [w |-> last.w, stats |-> <<>>,
                err |-> Wrap("failed to get BGP peer details using command", cmd.words \o last.err)]
     ELSE [w |-> last.w, stats |-> BGPPeers(last.re), err |-> Nil]

BGPSentenceA ==
  [name |-> <<"p", "1">>, state |-> <<"e", "s", "t", "a", "b", "l", "i", "s", "h", "e", "d">>,
   uptime |-> <<"1", "h">>]
    @@ ("remote-as" :> <<"6", "5">>) @@ ("prefix-count" :> <<"5">>)
    @@ ("updates-sent" :> <<"3">>)

BGPReplies == {<<BGPSentenceA>>}

(***************************************************************************)
(* Active PPP users                                                        *)
(***************************************************************************)
CmdPPPActive == Cmd(<<"/ppp/active/print", "without-paging">>)

\* a byte counter of one PPP sentence
PPPBytes(m, key) ==
  IF Has(m, key) /\ m[key] # <<>> /\ ParseUint(m[key]).err = Nil
  THEN ParseUint(m[key]).val
  ELSE 0

\* the user loop of GetPPPActiveUsers
RECURSIVE PPPUsers(_)
PPPUsers(re) ==
  IF re = <<>> THEN <<>>
  ELSE LET m == re[1] IN
    IF Get(m, "name") = <<>> THEN PPPUsers(Tail(re))
    ELSE << [Name |-> Get(m, "name"),
             Service |-> Get(m, "service"),
             CallerID |-> Get(m, "caller-id"),
             Address |-> Get(m, "address"),
             Uptime |-> parseMikrotikDuration(Get(m, "uptime")).val,
             UptimeStr |-> Get(m, "uptime"),
             RxBytes |-> PPPBytes(m, "bytes-in"),
             TxBytes |-> PPPBytes(m, "bytes-out")] >>
         \o PPPUsers(Tail(re))

\* Client.GetPPPActiveUsers
\* variant: every error of the command fails the collector
GetPPPActiveUsersStrict(w, d) ==
  LET r == Run(w, CmdPPPActive, d) IN
  IF r.err # Nil
  THEN [w |-> r.w, stats |-> <<>>, err |-> Wrap("failed to get active PPP users", r.err)]
  ELSE [w |-> r.w, stats |-> PPPUsers(r.re), err |-> Nil]

GetPPPActiveUsers(w, d) ==
  LET r == Run(w, CmdPPPActive, d) IN
  IF r.err # Nil
  THEN IF FeatureAbsent(r.err)
       THEN [w |-> r.w, stats |-> <<>>, err |-> Nil]
       ELSE [w |-> r.w, stats |-> <<>>, err |-> Wrap("failed to get active PPP users", r.err)]
  ELSE [w |-> r.w, stats |-> PPPUsers(r.re), err |-> Nil]

PPPSentenceA ==
  [name |-> <<"u", "1">>, service |-> <<"p", "p", "p", "o", "e">>,
   uptime |-> <<"3", "m", "8", ".", "5", "s">>]
    @@ ("bytes-in" :> <<"9">>)

PPPReplies == {<<PPPSentenceA>>}

(***************************************************************************)
(* Wireless                                                                *)
(***************************************************************************)
CmdWirelessPrint == Cmd(<<"/interface/wireless/print", "=.proplist=.id,name">>)
CmdRegistrationTable ==
  Cmd(<<"/interface/wireless/registration-table/print",
        "=.proplist=interface,mac-address,signal-strength,tx-ccq,rx-rate,tx-rate,uptime">>)
CmdMonitor(ifaceID) ==
  [words |-> <<"/interface/wireless/monitor", "=numbers=", "=once=",
               "=.proplist=name,ssid,frequency,signal-strength,rate-set,tx-rate,rx-rate">>,
   numbers |-> ifaceID]

\* strings.Split(s, "@")[0]
BeforeAt(s) ==
  LET at == {i \in DOMAIN s : s[i] = "@"}
  IN IF at = {} THEN s
     ELSE SubSeq(s, 1, (CHOOSE i \in at : \A j \in at : i <= j) - 1)

\* strconv.Itoa
RECURSIVE NatText(_)
NatText(n) == IF n < 10 THEN <<Digits[n + 1]>>
              ELSE Append(NatText(n \div 10), Digits[(n % 10) + 1])
Itoa(n) == IF n < 0 THEN <<"-">> \o NatText(0 - n) ELSE NatText(n)

\* the interface loop of FetchWirelessInterfaces from entry i on; ds[i] is
\* the device's behaviour on the monitor command of entry i
RECURSIVE MonitorLoop(_, _, _, _, _)
MonitorLoop(w, re, ds, i, interfaces) ==
  IF i > Len(re) THEN [w |-> w, res |-> interfaces, err |-> Nil]
  ELSE LET ifaceName == Get(re[i], "name")
           ifaceID == Get(re[i], ".id")
       IN IF ifaceName = <<>> \/ ifaceID = <<>>
          THEN MonitorLoop(w, re, ds, i + 1, interfaces)
          ELSE LET mon == Run(w, CmdMonitor(ifaceID), ds[i]) IN
            IF mon.err # Nil
            THEN MonitorLoop(mon.w, re, ds, i + 1, interfaces)
            ELSE IF Len(mon.re) > 0
            THEN LET monData == mon.re[1] IN
              MonitorLoop(mon.w, re, ds, i + 1,
                Append(interfaces,
                  [Name |-> ifaceName,
                   SSID |-> Get(monData, "ssid"),
                   Frequency |-> ParseInt(Get(monData, "frequency")).val,
                   SignalStrength |-> ParseInt(BeforeAt(Get(monData, "signal-strength"))).val,
                   TxRate |-> ParseFloat(Get(monData, "tx-rate")).val,
                   RxRate |-> ParseFloat(Get(monData, "rx-rate")).val]))
            ELSE MonitorLoop(mon.w, re, ds, i + 1, interfaces)

\* variant: only the first entry of the list is monitored
FetchWirelessInterfacesFirstOnly(w, d, ds) ==
  LET r == Run(w, CmdWirelessPrint, d) IN
  IF r.err # Nil
  THEN [w |-> r.w, res |-> <<>>, err |-> r.err]
  ELSE MonitorLoop(r.w, SubSeq(r.re, 1, IF r.re = <<>> THEN 0 ELSE 1), ds, 1, <<>>)

\* Client.FetchWirelessInterfaces
FetchWirelessInterfaces(w, d, ds) ==
  LET r == Run(w, CmdWirelessPrint, d) IN
  IF r.err # Nil
  THEN IF FeatureAbsent(r.err)
       THEN [w |-> r.w, res |-> <<>>, err |-> Nil]
       ELSE [w |-> r.w, res |-> <<>>,
             err |-> Wrap("error fetching wireless interface list", r.err)]
  ELSE MonitorLoop(r.w, r.re, ds, 1, <<>>)

\* the client loop of FetchWirelessClients
RECURSIVE WirelessClients(_)
WirelessClients(re) ==
  IF re = <<>> THEN <<>>
  ELSE LET m == re[1] IN
    IF Get(m, "mac-address") = <<>> THEN WirelessClients(Tail(re))
    ELSE << [Interface |-> Get(m, "interface"),
             MacAddress |-> Get(m, "mac-address"),
             SignalStrength |-> ParseInt(BeforeAt(Get(m, "signal-strength"))).val,
             TxCCQ |-> ParseInt(Get(m, "tx-ccq")).val,
             RxRate |-> Get(m, "rx-rate"),
             TxRate |-> Get(m, "tx-rate"),
             Uptime |-> Get(m, "uptime")] >>
         \o WirelessClients(Tail(re))

\* Client.FetchWirelessClients
FetchWirelessClients(w, d) ==
  LET r == Run(w, CmdRegistrationTable, d) IN
  IF r.err # Nil
  THEN IF FeatureAbsent(r.err)
       THEN [w |-> r.w, res |-> <<>>, err |-> Nil]
       ELSE [w |-> r.w, res |-> <<>>,
             err |-> Wrap("error fetching wireless registration table", r.err)]
  ELSE [w |-> r.w, res |-> WirelessClients(r.re), err |-> Nil]

\* the i-th wireless interface of the device: wlan<i> with id *<i>
WlanSentence(i) ==
  [name |-> <<"w", "l", "a", "n", Digits[i + 1]>>] @@ (".id" :> <<"*", Digits[i + 1]>>)

WirelessListReplies == {[i \in 1..k |-> WlanSentence(i)] : k \in {0, MaxWlan}}

MonitorSentenceA ==
  [ssid |-> <<"l", "a", "b">>, frequency |-> <<"5", "1", "8", "0">>]
    @@ ("signal-strength" :> <<"-", "6", "0", "@", "6", "M">>)
    @@ ("tx-rate" :> <<"5", "4", ".", "5">>)

MonitorReplies == {<<MonitorSentenceA>>}

ClientSentenceA ==
  [interface |-> <<"w", "l", "a", "n", "1">>, uptime |-> <<"3", "h">>]
    @@ ("mac-address" :> TxtMac) @@ ("signal-strength" :> <<"-", "7", "4", "@", "6", "M">>)
    @@ ("tx-ccq" :> <<"9", "1">>)

ClientReplies == {<<ClientSentenceA>>}

(***************************************************************************)
(* The scrape: handleMetricsRequest builds one Client and one collector,   *)
(* Gather calls MikrotikCollector.Collect once, the handler closes the     *)
(* client.  pc is the place of the scrape in Collect.  The error locals    *)
(* of Collect (sysErr, rbErr, ...) are kept as booleans: TRUE for a        *)
(* non-nil error, which is all Collect reads of them.                      *)
(***************************************************************************)
VARIABLES
  pc,                \* the step of Collect the scrape is at
  collectBGP, collectPPP, collectWireless,  \* the collector's feature flags
  client,            \* Client.client: the session's connection, or NoConn
  opened,            \* device side: connections accepted so far
  live,              \* device side: connections still open
  issued,            \* device side: commands received, in order
  now,               \* the clock
  down,              \* device side: the device has become unreachable
  faults,            \* device side: commands failed while reachable
  called,            \* the calls of Run so far, each with what it returned
  ch,                \* the metrics sent on the channel, in order
  up, lastScrapeError,
  sysErr, rbErr, ifErr, healthErr, bgpErr, pppErr, wirelessErr, wlIfErr, wlClientErr,
  invoked,           \* the collectors Collect has called, in order
  returns,           \* what each of them returned: failed or not, and its result
  listed,            \* the device's reply to /interface/print
  statsOutcome,      \* how the interface statistics command ended ("none": not sent)
  caller,            \* SpecSession: the session's user is "idle" or in the "select" of Run
  calls,             \* SpecSession: API calls made on the session
  callConn,          \* SpecSession: Client.client when the current Run started its worker
  workers,           \* SpecSession: the worker goroutine of each Run, in order
  crashed,           \* SpecSession: a worker dereferenced a nil Client.client
  tainted,           \* SpecSession: connections on which a command errored or timed out
  sentOn,            \* SpecSession: for each command received, its Run and connection
  last,              \* SpecSession: the API call that returned last
  probe,             \* SpecCollectors: the collector called, its inputs and its result
  server             \* SpecServer: the requests in hand and the objects they made

scrapeVars ==
  <<pc, collectBGP, collectPPP, collectWireless, client, opened, live, issued, now,
    down, faults, called, ch, up, lastScrapeError, sysErr, rbErr, ifErr, healthErr, bgpErr, pppErr,
    wirelessErr, wlIfErr, wlClientErr, invoked, returns, listed, statsOutcome>>

sessionVars == <<caller, calls, callConn, workers, crashed, tainted, sentOn, last>>

World ==
  [client |-> client, opened |-> opened, live |-> live, issued |-> issued, now |-> now,
   down |-> down, faults |-> faults, called |-> called]

\* the variables of the session and of the device
world == <<client, opened, live, issued, now, down, faults, called>>

SetWorld(w) ==
  /\ client' = w.client
  /\ opened' = w.opened
  /\ live' = w.live
  /\ issued' = w.issued
  /\ now' = w.now
  /\ down' = w.down
  /\ faults' = w.faults
  /\ called' = w.called

\* the behaviours open to the device on the next command
Offered(replies) == IF down THEN {Unused} ELSE Behaviours(replies)

\* those open to it on the command after one it met with d
Later(d, replies) == IF d.out = "down" THEN {Unused} ELSE Behaviours(replies)

\* the behaviours given to a command whose caller treats every device error
\* alike: one device error stands for all
Alike(ds) == {d \in ds : d.out = "error" => d.err = ErrFailure}

LblCpu == <<"c", "p", "u">>
LblBoard == <<"b", "o", "a", "r", "d">>
LblFan1 == <<"f", "a", "n", "1">>
LblTrue == <<"t", "r", "u", "e">>
LblFalse == <<"f", "a", "l", "s", "e">>
TxtEstablished == <<"e", "s", "t", "a", "b", "l", "i", "s", "h", "e", "d">>

\* variant: up reported as the absence of a scrape error
ScrapeMetricsUpFromError(upValue, duration, scrapeError) ==
  << Metric("upDesc", 1 - scrapeError, <<>>),
     Metric("scrapeDurationDesc", duration, <<>>),
     Metric("lastScrapeErrorDesc", scrapeError, <<>>) >>

\* variant: the duration left out
ScrapeMetricsNoDuration(upValue, duration, scrapeError) ==
  << Metric("upDesc", upValue, <<>>),
     Metric("lastScrapeErrorDesc", scrapeError, <<>>) >>

\* the three exporter health metrics, sent on both ways out of Collect
ScrapeMetrics(upValue, duration, scrapeError) ==
  << Metric("upDesc", upValue, <<>>),
     Metric("scrapeDurationDesc", duration, <<>>),
     Metric("lastScrapeErrorDesc", scrapeError, <<>>) >>

\* variant: lastScrapeError assigned from the last collector alone
AssignScrapeError(current, failed, othersOk) ==
  IF failed /\ othersOk THEN 1 ELSE 0

\* lastScrapeError after a collector returned: set when it failed and the
\* collectors named in the guard had not
RaiseScrapeError(current, failed, othersOk) ==
  IF failed /\ othersOk THEN 1 ELSE current

\* variant: Collect goes on to the collectors whatever Connect returned
AfterConnectGoOn(failed) == "sys"

\* where Collect goes after the initial Connect
AfterConnect(failed) == IF failed THEN "returned" ELSE "sys"

\* variant: the health collector runs before the interface collector
FollowingHealthFirst(step) ==
  CASE step = "sys" -> "rb"
    [] step = "rb" -> "health"
    [] step = "health" -> "if"
    [] step = "if" -> "bgp"
    [] step = "bgp" -> "ppp"
    [] step = "ppp" -> "wlif"
    [] step = "wlif" -> "wlc"
    [] step = "wlc" -> "emit"

\* the step Collect goes on to after a collector returned, failed or not
Following(step) ==
  CASE step = "sys" -> "rb"
    [] step = "rb" -> "if"
    [] step = "if" -> "health"
    [] step = "health" -> "bgp"
    [] step = "bgp" -> "ppp"
    [] step = "ppp" -> "wlif"
    [] step = "wlif" -> "wlc"
    [] step = "wlc" -> "emit"

\* variant: the first failed collector ends the scrape
AdvanceUntilFailure(step, failed) == IF failed THEN "emit" ELSE Following(step)

Advance(step, failed) == Following(step)

SystemResourceMetrics(systemRes) ==
  << Metric("cpuLoadDesc", systemRes.CPULoad, <<>>),
     Metric("memoryUsageDesc", USub(systemRes.TotalMemory, systemRes.FreeMemory), <<>>),
     Metric("totalMemoryDesc", systemRes.TotalMemory, <<>>),
     Metric("uptimeDesc", systemRes.Uptime, <<>>),
     Metric("storageTotalBytesDesc", systemRes.TotalHDDSpace, <<>>),
     Metric("storageFreeBytesDesc", systemRes.FreeHDDSpace, <<>>),
     Metric("storageUsedBytesDesc",
            USub(systemRes.TotalHDDSpace, systemRes.FreeHDDSpace), <<>>) >>

\* variant: board info sent only for a routerboard result
BoardInfoNoPlaceholder(rbFailed, sysFailed, routerboard) ==
  IF rbFailed \/ sysFailed THEN <<>>
  ELSE << Metric("boardInfoDesc", 1,
                 << routerboard[1].BoardName, routerboard[1].Model,
                    routerboard[1].SerialNumber, routerboard[1].FirmwareType,
                    routerboard[1].FactoryFirmware, routerboard[1].CurrentFirmware,
                    routerboard[1].UpgradeFirmware >>) >>

\* the board info record Collect sends after GetRouterboard returned
BoardInfoMetrics(rbFailed, sysFailed, routerboard) ==
  IF rbFailed
  THEN IF ~sysFailed
       THEN << Metric("boardInfoDesc", 1, <<<<>>, <<>>, <<>>, <<>>, <<>>, <<>>, <<>>>>) >>
       ELSE <<>>
  ELSE IF ~sysFailed
  THEN << Metric("boardInfoDesc", 1,
                 << routerboard[1].BoardName, routerboard[1].Model,
                    routerboard[1].SerialNumber, routerboard[1].FirmwareType,
                    routerboard[1].FactoryFirmware, routerboard[1].CurrentFirmware,
                    routerboard[1].UpgradeFirmware >>) >>
  ELSE <<>>

\* the nine records of one interface
OneInterfaceMetrics(iface) ==
  << Metric("interfaceInfoDesc", IF iface.Running THEN 1 ELSE 0,
            <<iface.Name, iface.Type, iface.Comment, iface.MACAddress>>),
     Metric("interfaceRxBytesDesc", iface.RxBytes, <<iface.Name>>),
     Metric("interfaceTxBytesDesc", iface.TxBytes, <<iface.Name>>),
     Metric("interfaceRxPacketsDesc", iface.RxPackets, <<iface.Name>>),
     Metric("interfaceTxPacketsDesc", iface.TxPackets, <<iface.Name>>),
     Metric("interfaceRxErrorsDesc", iface.RxErrors, <<iface.Name>>),
     Metric("interfaceTxErrorsDesc", iface.TxErrors, <<iface.Name>>),
     Metric("interfaceRxDropsDesc", iface.RxDrops, <<iface.Name>>),
     Metric("interfaceTxDropsDesc", iface.TxDrops, <<iface.Name>>) >>

\* the records of a sequence of results, one after the other
RECURSIVE Flatten(_)
Flatten(seqs) == IF seqs = <<>> THEN <<>> ELSE seqs[1] \o Flatten(Tail(seqs))

InterfaceMetrics(interfaceStats) ==
  Flatten([i \in DOMAIN interfaceStats |-> OneInterfaceMetrics(interfaceStats[i])])

HealthMetrics(health) ==
  (IF health.Temperature # 0
   THEN <<Metric("temperatureDesc", health.Temperature, <<LblCpu>>)>> ELSE <<>>)
  \o (IF health.BoardTemperature # 0 /\ health.BoardTemperature # health.Temperature
      THEN <<Metric("temperatureDesc", health.BoardTemperature, <<LblBoard>>)>> ELSE <<>>)
  \o (IF health.Voltage # 0
      THEN <<Metric("voltageDesc", health.Voltage, <<>>)>> ELSE <<>>)
  \o (IF health.Current # 0
      THEN <<Metric("currentDesc", health.Current, <<>>)>> ELSE <<>>)
  \o (IF health.PowerConsumed # 0
      THEN <<Metric("powerConsumedDesc", health.PowerConsumed, <<>>)>> ELSE <<>>)
  \o (IF health.FanSpeed # 0
      THEN <<Metric("fanSpeedDesc", health.FanSpeed, <<LblFan1>>)>> ELSE <<>>)

OneBGPPeerMetrics(peer) ==
  << Metric("bgpPeerInfoDesc", 1,
            << peer.Name, peer.Instance, peer.RemoteAddress, peer.RemoteAS,
               peer.LocalAddress, peer.LocalRole, peer.RemoteRole,
               IF peer.Disabled THEN LblTrue ELSE LblFalse >>),
     Metric("bgpPeerStateDesc", IF peer.State = TxtEstablished THEN 1 ELSE 0,
            <<peer.Name, peer.State>>),
     Metric("bgpPeerUptimeDesc", peer.Uptime, <<peer.Name>>),
     Metric("bgpPeerPrefixCountDesc", peer.PrefixCount, <<peer.Name>>),
     Metric("bgpPeerUpdatesSentDesc", peer.UpdatesSent, <<peer.Name>>),
     Metric("bgpPeerUpdatesRecvDesc", peer.UpdatesRecv, <<peer.Name>>),
     Metric("bgpPeerWithdrawsSentDesc", peer.WithdrawsSent, <<peer.Name>>),
     Metric("bgpPeerWithdrawsRecvDesc", peer.WithdrawsRecv, <<peer.Name>>) >>

BGPMetrics(bgpStats) ==
  Flatten([i \in DOMAIN bgpStats |-> OneBGPPeerMetrics(bgpStats[i])])

OnePPPUserMetrics(user) ==
  << Metric("pppUserInfoDesc", 1,
            <<user.Name, user.Service, user.CallerID, user.Address, user.UptimeStr>>),
     Metric("pppUserUptimeDesc", user.Uptime, <<user.Name>>) >>

PPPMetrics(pppUsers) ==
  << Metric("pppActiveCountDesc", Len(pppUsers), <<>>) >>
    \o Flatten([i \in DOMAIN pppUsers |-> OnePPPUserMetrics(pppUsers[i])])

OneWirelessInterfaceMetrics(iface) ==
  << Metric("wirelessInterfaceInfoDesc", 1,
            <<iface.Name, iface.SSID, Itoa(iface.Frequency)>>) >>
  \o (IF iface.SignalStrength # 0
      THEN <<Metric("wirelessInterfaceSignalStrengthDesc", iface.SignalStrength,
                    <<iface.Name>>)>> ELSE <<>>)
  \o (IF iface.TxRate > 0
      THEN <<Metric("wirelessInterfaceTxRateDesc", iface.TxRate, <<iface.Name>>)>>
      ELSE <<>>)
  \o (IF iface.RxRate > 0
      THEN <<Metric("wirelessInterfaceRxRateDesc", iface.RxRate, <<iface.Name>>)>>
      ELSE <<>>)

WirelessInterfaceMetrics(wirelessInterfaces) ==
  Flatten([i \in DOMAIN wirelessInterfaces |->
             OneWirelessInterfaceMetrics(wirelessInterfaces[i])])

OneWirelessClientMetrics(c) ==
  << Metric("wirelessClientInfoDesc", 1, <<c.Interface, c.MacAddress, c.Uptime>>) >>
  \o (IF c.SignalStrength # 0
      THEN <<Metric("wirelessClientSignalStrengthDesc", c.SignalStrength,
                    <<c.Interface, c.MacAddress>>)>> ELSE <<>>)
  \o (IF c.TxCCQ # 0
      THEN <<Metric("wirelessClientTxCCQDesc", c.TxCCQ, <<c.Interface, c.MacAddress>>)>>
      ELSE <<>>)

\* clientCounts: the clients of each interface name
ClientCount(wirelessClients, ifaceName) ==
  Cardinality({i \in DOMAIN wirelessClients : wirelessClients[i].Interface = ifaceName})

\* the orders in which a range over the keys of clientCounts may run
KeyOrders(keys) ==
  {o \in [1..Cardinality(keys) -> keys] : \A k \in keys : \E i \in DOMAIN o : o[i] = k}

\* the records of the wireless clients, the counts in key order order
WirelessClientMetrics(wirelessClients, order) ==
  Flatten([i \in DOMAIN wirelessClients |-> OneWirelessClientMetrics(wirelessClients[i])])
    \o [i \in DOMAIN order |->
          Metric("wirelessActiveClientsDesc", ClientCount(wirelessClients, order[i]),
                 <<order[i]>>)]

(***************************************************************************)
(* The steps of MikrotikCollector.Collect                                  *)
(***************************************************************************)
scrapeLocals ==
  <<up, lastScrapeError, sysErr, rbErr, ifErr, healthErr, bgpErr, pppErr,
    wirelessErr, wlIfErr, wlClientErr>>
flags == <<collectBGP, collectPPP, collectWireless>>
history == <<invoked, returns, listed, statsOutcome>>

\* NewClient: no connection yet; the device has seen nothing
InitWorld ==
  /\ client = NoConn /\ opened = 0 /\ live = {} /\ issued = <<>> /\ now = 0
  /\ down = FALSE /\ faults = 0 /\ called = <<>>

\* no API call made yet
InitSession ==
  /\ caller = "idle" /\ calls = 0 /\ callConn = NoConn /\ workers = <<>>
  /\ crashed = FALSE /\ tainted = {} /\ sentOn = <<>>
  /\ last = [call |-> "none", out |-> "none", conn |-> NoConn, after |-> NoConn,
             before |-> NoConn, dialled |-> FALSE, open |-> FALSE, err |-> Nil,
             worker |-> 0]

\* the scrape requests the server handles at once
MaxRequests == 2
Requests == 1..MaxRequests

\* the server with no request in hand: pc, target, client and collector are
\* the locals of each invocation of handleMetricsRequest (client and
\* collector refer to objects of the heaps clients and collectors); conns
\* are the connections dialled, sent says which request sent a command on
\* which connection, faults counts the commands that failed
NoServer ==
  [pc |-> [r \in Requests |-> "idle"],
   target |-> [r \in Requests |-> <<>>],
   client |-> [r \in Requests |-> 0],
   collector |-> [r \in Requests |-> 0],
   ran |-> [r \in Requests |-> 0],
   response |-> [r \in Requests |-> <<>>],
   clients |-> <<>>, collectors |-> <<>>, conns |-> <<>>, sent |-> {}, faults |-> 0]

\* no collector called on its own
NoProbe == [unit |-> "none", arg |-> 0, d |-> <<>>, r |-> <<>>]

\* the locals of Collect as it starts, nothing sent
InitCollect ==
  /\ ch = <<>>
  /\ up = 1 /\ lastScrapeError = 0
  /\ sysErr = FALSE /\ rbErr = FALSE /\ ifErr = FALSE /\ healthErr = FALSE
  /\ bgpErr = FALSE /\ pppErr = FALSE /\ wirelessErr = FALSE
  /\ wlIfErr = FALSE /\ wlClientErr = FALSE
  /\ invoked = <<>> /\ returns = <<>>
  /\ listed = <<>>
  /\ statsOutcome = "none"

Init ==
  /\ pc = "connect"
  /\ collectBGP \in BOOLEAN /\ collectPPP \in BOOLEAN /\ collectWireless \in BOOLEAN
  /\ InitWorld
  /\ InitSession
  /\ InitCollect
  /\ probe = NoProbe /\ server = NoServer

\* the initial Connect; on failure the three scrape metrics and return
CollectConnect ==
  /\ pc = "connect"
  /\ UNCHANGED <<sessionVars, probe, server>>
  /\ \E d \in {Reachable, Unused} :
       LET c == Connect(Meet(World, d)) IN
       /\ SetWorld(c.w)
       /\ IF c.err # Nil
          THEN /\ up' = 0
               /\ lastScrapeError' = 1
               /\ ch' = ch \o ScrapeMetrics(0, c.w.now, 1)
          ELSE UNCHANGED <<up, lastScrapeError, ch>>
       /\ pc' = AfterConnect(c.err # Nil)
  /\ UNCHANGED <<flags, sysErr, rbErr, ifErr, healthErr, bgpErr, pppErr,
                 wirelessErr, wlIfErr, wlClientErr, history>>

CollectSystemResources ==
  /\ pc = "sys"
  /\ UNCHANGED <<sessionVars, probe, server>>
  /\ \E d \in Alike(Offered(SysReplies)) :
       LET r == GetSystemResources(World, d)
           failed == r.err # Nil
       IN /\ r.w.faults <= MaxFaults
          /\ SetWorld(r.w)
          /\ sysErr' = failed
          /\ lastScrapeError' = RaiseScrapeError(lastScrapeError, failed, TRUE)
          /\ ch' = IF failed THEN ch ELSE ch \o SystemResourceMetrics(r.res[1])
          /\ returns' = Append(returns, [failed |-> failed, res |-> r.res])
          /\ pc' = Advance("sys", failed)
  /\ invoked' = Append(invoked, "GetSystemResources")
  /\ UNCHANGED <<flags, up, rbErr, ifErr, healthErr, bgpErr, pppErr,
                 wirelessErr, wlIfErr, wlClientErr, listed, statsOutcome>>

CollectRouterboard ==
  /\ pc = "rb"
  /\ UNCHANGED <<sessionVars, probe, server>>
  /\ \E d \in Alike(Offered(RbReplies)) :
       LET r == GetRouterboard(World, d)
           failed == r.err # Nil
       IN /\ r.w.faults <= MaxFaults
          /\ SetWorld(r.w)
          /\ rbErr' = failed
          /\ lastScrapeError' = RaiseScrapeError(lastScrapeError, failed, ~sysErr)
          /\ ch' = ch \o BoardInfoMetrics(failed, sysErr, r.res)
          /\ returns' = Append(returns, [failed |-> failed, res |-> r.res])
          /\ pc' = Advance("rb", failed)
  /\ invoked' = Append(invoked, "GetRouterboard")
  /\ UNCHANGED <<flags, up, sysErr, ifErr, healthErr, bgpErr, pppErr,
                 wirelessErr, wlIfErr, wlClientErr, listed, statsOutcome>>

CollectInterfaces ==
  /\ pc = "if"
  /\ UNCHANGED <<sessionVars, probe, server>>
  /\ \E d1 \in Alike(Offered(IfaceListReplies)) :
     \E d2 \in IF InitialStats(d1.re) # <<>>
                THEN Alike(Behaviours(DetailReplies)) ELSE {Unused} :
     \E d3 \in IF InitialStats(d1.re) # <<>>
                THEN Alike(Later(d2, StatsReplies)) ELSE {Unused} :
       LET r == GetInterfaceStats(World, d1, d2, d3)
           initial == Run(World, CmdInterfacePrint, d1)
           failed == r.err # Nil
           statsSent == /\ Len(r.w.issued) > Len(issued)
                        /\ r.w.issued[Len(r.w.issued)] = CmdInterfaceStats
       IN /\ r.w.faults <= MaxFaults
          /\ SetWorld(r.w)
          /\ ifErr' = failed
          /\ lastScrapeError' = RaiseScrapeError(lastScrapeError, failed, ~sysErr /\ ~rbErr)
          /\ ch' = IF failed THEN ch ELSE ch \o InterfaceMetrics(r.stats)
          /\ listed' = initial.re
          /\ statsOutcome' =
               IF ~statsSent THEN "none"
               ELSE IF r.w.down \/ d3.out = "timeout" THEN "timeout" ELSE d3.out
          /\ returns' = Append(returns, [failed |-> failed, res |-> r.stats])
          /\ pc' = Advance("if", failed)
  /\ invoked' = Append(invoked, "GetInterfaceStats")
  /\ UNCHANGED <<flags, up, sysErr, rbErr, healthErr, bgpErr, pppErr,
                 wirelessErr, wlIfErr, wlClientErr>>

CollectHealth ==
  /\ pc = "health"
  /\ UNCHANGED <<sessionVars, probe, server>>
  /\ \E d \in Offered(HealthReplies) :
       LET r == GetSystemHealth(World, d)
           failed == r.err # Nil
       IN /\ r.w.faults <= MaxFaults
          /\ SetWorld(r.w)
          /\ healthErr' = failed
          /\ lastScrapeError' =
               RaiseScrapeError(lastScrapeError, failed, ~sysErr /\ ~rbErr /\ ~ifErr)
          /\ ch' = IF ~failed /\ r.res # <<>> THEN ch \o HealthMetrics(r.res[1]) ELSE ch
          /\ returns' = Append(returns, [failed |-> failed, res |-> r.res])
          /\ pc' = Advance("health", failed)
  /\ invoked' = Append(invoked, "GetSystemHealth")
  /\ UNCHANGED <<flags, up, sysErr, rbErr, ifErr, bgpErr, pppErr,
                 wirelessErr, wlIfErr, wlClientErr, listed, statsOutcome>>

CollectBGP ==
  /\ pc = "bgp"
  /\ UNCHANGED <<sessionVars, probe, server>>
  /\ IF collectBGP
     THEN /\ \E d1 \in Offered(BGPReplies) :
             \E d2 \in IF d1.out = "error" THEN Behaviours(BGPReplies) ELSE {Unused} :
               LET r == GetBGPPeerStats(World, d1, d2)
                   failed == r.err # Nil
               IN /\ r.w.faults <= MaxFaults
                  /\ SetWorld(r.w)
                  /\ bgpErr' = failed
                  /\ lastScrapeError' =
                       RaiseScrapeError(lastScrapeError, failed,
                                        ~sysErr /\ ~rbErr /\ ~ifErr)
                  /\ ch' = IF failed THEN ch ELSE ch \o BGPMetrics(r.stats)
                  /\ returns' = Append(returns, [failed |-> failed, res |-> r.stats])
                  /\ pc' = Advance("bgp", failed)
          /\ invoked' = Append(invoked, "GetBGPPeerStats")
     ELSE /\ pc' = Advance("bgp", FALSE)
          /\ UNCHANGED <<world, bgpErr, lastScrapeError,
                         ch, invoked, returns>>
  /\ UNCHANGED <<flags, up, sysErr, rbErr, ifErr, healthErr, pppErr,
                 wirelessErr, wlIfErr, wlClientErr, listed, statsOutcome>>

CollectPPP ==
  /\ pc = "ppp"
  /\ UNCHANGED <<sessionVars, probe, server>>
  /\ IF collectPPP
     THEN /\ \E d \in Offered(PPPReplies) :
               LET r == GetPPPActiveUsers(World, d)
                   failed == r.err # Nil
                   bgpCollectionSuccessful == ~collectBGP \/ ~bgpErr
                   healthCollectionSuccessful == ~healthErr
               IN /\ r.w.faults <= MaxFaults
                  /\ SetWorld(r.w)
                  /\ pppErr' = failed
                  /\ lastScrapeError' =
                       RaiseScrapeError(lastScrapeError, failed,
                                        /\ ~sysErr /\ ~rbErr /\ ~ifErr
                                        /\ bgpCollectionSuccessful
                                        /\ healthCollectionSuccessful)
                  /\ ch' = IF failed THEN ch ELSE ch \o PPPMetrics(r.stats)
                  /\ returns' = Append(returns, [failed |-> failed, res |-> r.stats])
                  /\ pc' = Advance("ppp", failed)
          /\ invoked' = Append(invoked, "GetPPPActiveUsers")
     ELSE /\ pc' = Advance("ppp", FALSE)
          /\ UNCHANGED <<world, pppErr, lastScrapeError,
                         ch, invoked, returns>>
  /\ UNCHANGED <<flags, up, sysErr, rbErr, ifErr, healthErr, bgpErr,
                 wirelessErr, wlIfErr, wlClientErr, listed, statsOutcome>>

CollectWirelessInterfaces ==
  /\ pc = "wlif"
  /\ UNCHANGED <<sessionVars, probe, server>>
  /\ IF collectWireless
     THEN /\ \E d \in Offered(WirelessListReplies) :
             \E ds \in [1..Len(d.re) -> Alike(Behaviours(MonitorReplies))] :
               LET r == FetchWirelessInterfaces(World, d, ds)
                   failed == r.err # Nil
                   bgpOk == ~collectBGP \/ ~bgpErr
                   pppOk == ~collectPPP \/ ~pppErr
                   healthOk == ~healthErr
               IN /\ r.w.faults <= MaxFaults
                  /\ SetWorld(r.w)
                  /\ wlIfErr' = failed
                  /\ wirelessErr' = failed
                  /\ lastScrapeError' =
                       RaiseScrapeError(lastScrapeError, failed,
                                        /\ ~sysErr /\ ~rbErr /\ ~ifErr
                                        /\ bgpOk /\ pppOk /\ healthOk)
                  /\ ch' = IF failed THEN ch ELSE ch \o WirelessInterfaceMetrics(r.res)
                  /\ returns' = Append(returns, [failed |-> failed, res |-> r.res])
                  /\ pc' = Advance("wlif", failed)
          /\ invoked' = Append(invoked, "FetchWirelessInterfaces")
     ELSE /\ pc' = Advance("wlif", FALSE)
          /\ UNCHANGED <<world, wlIfErr, wirelessErr,
                         lastScrapeError, ch, invoked, returns>>
  /\ UNCHANGED <<flags, up, sysErr, rbErr, ifErr, healthErr, bgpErr, pppErr,
                 wlClientErr, listed, statsOutcome>>

CollectWirelessClients ==
  /\ pc = "wlc"
  /\ UNCHANGED <<sessionVars, probe, server>>
  /\ IF collectWireless
     THEN /\ \E d \in Offered(ClientReplies) :
               LET r == FetchWirelessClients(World, d)
                   failed == r.err # Nil
                   bgpOk == ~collectBGP \/ ~bgpErr
                   pppOk == ~collectPPP \/ ~pppErr
                   healthOk == ~healthErr
                   wlIfOk == ~wlIfErr
                   keys == {r.res[i].Interface : i \in DOMAIN r.res}
               IN /\ r.w.faults <= MaxFaults
                  /\ SetWorld(r.w)
                  /\ wlClientErr' = failed
                  /\ wirelessErr' = (wirelessErr \/ failed)
                  /\ lastScrapeError' =
                       RaiseScrapeError(lastScrapeError, failed,
                                        /\ ~sysErr /\ ~rbErr /\ ~ifErr
                                        /\ bgpOk /\ pppOk /\ healthOk /\ wlIfOk)
                  /\ \E order \in KeyOrders(keys) :
                       ch' = IF failed THEN ch
                             ELSE ch \o WirelessClientMetrics(r.res, order)
                  /\ returns' = Append(returns, [failed |-> failed, res |-> r.res])
                  /\ pc' = Advance("wlc", failed)
          /\ invoked' = Append(invoked, "FetchWirelessClients")
     ELSE /\ pc' = Advance("wlc", FALSE)
          /\ UNCHANGED <<world, wlClientErr, wirelessErr,
                         lastScrapeError, ch, invoked, returns>>
  /\ UNCHANGED <<flags, up, sysErr, rbErr, ifErr, healthErr, bgpErr, pppErr,
                 wlIfErr, listed, statsOutcome>>

\* the end of Collect: the three scrape metrics
CollectFinish ==
  /\ pc = "emit"
  /\ UNCHANGED <<sessionVars, probe, server>>
  /\ ch' = ch \o ScrapeMetrics(up, now, lastScrapeError)
  /\ pc' = "returned"
  /\ UNCHANGED <<flags, world, scrapeLocals, history>>

\* handleMetricsRequest after ServeHTTP: client.Close()
HandlerClose ==
  /\ pc = "returned"
  /\ UNCHANGED <<sessionVars, probe, server>>
  /\ SetWorld(Close(World))
  /\ pc' = "closed"
  /\ UNCHANGED <<flags, ch, scrapeLocals, history>>

Next ==
  \/ CollectConnect
  \/ CollectSystemResources
  \/ CollectRouterboard
  \/ CollectInterfaces
  \/ CollectHealth
  \/ CollectBGP
  \/ CollectPPP
  \/ CollectWirelessInterfaces
  \/ CollectWirelessClients
  \/ CollectFinish
  \/ HandlerClose

vars == <<scrapeVars, sessionVars, probe, server>>

Spec == Init /\ [][Next]_vars

(***************************************************************************)
(* The session on its own.  Its user makes up to MaxCalls calls of         *)
(* Connect, Run and Close, one after the other.  Run is taken apart into   *)
(* the steps of its goroutines: the caller connects if need be, starts the *)
(* worker and waits in the select; the worker reads Client.client and      *)
(* sends the command on it; the device answers; the select takes the       *)
(* reply, the error or the timer.  Nothing orders the worker's steps with  *)
(* the timer or with later calls: it may take them at any time after Run   *)
(* started it.                                                             *)
(***************************************************************************)
scrapeOnly == <<pc, flags, ch, scrapeLocals, history>>

SessionInit ==
  /\ pc = "session"
  /\ collectBGP = FALSE /\ collectPPP = FALSE /\ collectWireless = FALSE
  /\ InitWorld
  /\ InitSession
  /\ InitCollect
  /\ probe = NoProbe /\ server = NoServer

\* the device accepts (Reachable) or refuses (Unused) the next dial
Dialling(w, d) == [w EXCEPT !.down = (d.out = "down")]

\* the command of the k-th worker
CmdOf(k) == [words |-> <<"/command">>, numbers |-> NatText(k)]

\* what the API call that just returned looked like
Returning(call, out, conn, w, err, worker) ==
  [call |-> call, out |-> out, conn |-> conn, after |-> w.client,
   before |-> client, dialled |-> w.opened > opened, open |-> conn \in w.live,
   err |-> err, worker |-> worker]

Callable == caller = "idle" /\ ~crashed /\ calls < MaxCalls

\* the user calls Client.Connect
SessionConnect ==
  /\ Callable
  /\ \E d \in {Reachable, Unused} :
       LET c == Connect(Dialling(World, d)) IN
       /\ SetWorld(c.w)
       /\ last' = Returning("Connect", IF c.err = Nil THEN "ok" ELSE "connect error",
                            NoConn, c.w, c.err, 0)
  /\ calls' = calls + 1
  /\ UNCHANGED <<caller, callConn, workers, crashed, tainted, sentOn, scrapeOnly, probe, server>>

\* the user calls Client.Close
SessionClose ==
  /\ Callable
  /\ SetWorld(Close(World))
  /\ last' = Returning("Close", "ok", NoConn, Close(World), Nil, 0)
  /\ calls' = calls + 1
  /\ UNCHANGED <<caller, callConn, workers, crashed, tainted, sentOn, scrapeOnly, probe, server>>

\* the user calls Client.Run or Client.RunArgs: the lazy connect, then the
\* channels, the worker and the select
RunStart ==
  /\ Callable
  /\ \E d \in IF client = NoConn THEN {Reachable, Unused} ELSE {Reachable} :
       LET c == EnsureConnected(Dialling(World, d)) IN
       /\ SetWorld(c.w)
       /\ IF c.err # Nil
          THEN /\ last' = Returning("Run", "connect error", NoConn, c.w, c.err, 0)
               /\ UNCHANGED <<caller, callConn, workers>>
          ELSE /\ caller' = "select"
               /\ callConn' = c.w.client
               /\ workers' = Append(workers, [st |-> "started", conn |-> NoConn,
                                              replyCh |-> FALSE, errCh |-> Nil])
               /\ UNCHANGED last
  /\ calls' = calls + 1
  /\ UNCHANGED <<crashed, tainted, sentOn, scrapeOnly, probe, server>>

\* worker k evaluates c.client: a nil pointer there ends the process
WorkerRead(k) ==
  /\ ~crashed
  /\ workers[k].st = "started"
  /\ IF client = NoConn
     THEN /\ crashed' = TRUE
          /\ workers' = [workers EXCEPT ![k].st = "panicked"]
     ELSE /\ workers' = [workers EXCEPT ![k].st = "read", ![k].conn = client]
          /\ UNCHANGED crashed
  /\ UNCHANGED <<world, caller, calls, callConn, tainted, sentOn, last, scrapeOnly, probe, server>>

\* worker k writes its command on the connection it read; on a closed one
\* the write fails and the error goes to errCh
WorkerSend(k) ==
  /\ ~crashed
  /\ workers[k].st = "read"
  /\ IF workers[k].conn \in live
     THEN /\ SetWorld(Send(World, CmdOf(k)))
          /\ workers' = [workers EXCEPT ![k].st = "sent"]
          /\ sentOn' = Append(sentOn, [run |-> k, conn |-> workers[k].conn,
                                       live |-> workers[k].conn \in live,
                                       tainted |-> workers[k].conn \in tainted])
     ELSE /\ workers' = [workers EXCEPT ![k].st = "done", ![k].errCh = ErrClosed]
          /\ UNCHANGED <<world, sentOn>>
  /\ UNCHANGED <<caller, calls, callConn, crashed, tainted, last, scrapeOnly, probe, server>>

\* the device replies to the command of worker k, which hands the reply to
\* replyCh (buffered: the worker never waits)
DeviceReply(k) ==
  /\ ~crashed
  /\ workers[k].st = "sent"
  /\ workers[k].conn \in live
  /\ workers' = [workers EXCEPT ![k].st = "done", ![k].replyCh = TRUE]
  /\ UNCHANGED <<world, caller, calls, callConn, crashed, tainted, sentOn, last,
                 scrapeOnly, probe, server>>

\* the device answers the command of worker k with an error, or the
\* connection fails under it; the worker hands the error to errCh
DeviceError(k) ==
  /\ ~crashed
  /\ workers[k].st = "sent"
  /\ workers' = [workers EXCEPT ![k].st = "done", ![k].errCh = ErrFailure]
  /\ tainted' = tainted \cup {workers[k].conn}
  /\ UNCHANGED <<world, caller, calls, callConn, crashed, sentOn, last, scrapeOnly, probe, server>>

\* the worker of the Run in progress
Current == Len(workers)

\* variant: the channels belong to the session, the select of a call
\* receives what the worker of any call so far delivered
ReceivableFromAny(k) == 1..k

\* the workers whose replyCh and errCh the select of call k receives from:
\* both channels are made in the call and handed to its worker alone
Receivable(k) == {k}

\* case reply := <-replyCh
SelectReply ==
  /\ caller = "select" /\ ~crashed
  /\ \E j \in Receivable(Current) :
       /\ workers[j].replyCh
       /\ LET r == Select(World, [out |-> "reply", re |-> <<>>, err |-> Nil]) IN
            /\ SetWorld(r.w)
            /\ last' = Returning("Run", "reply", callConn, r.w, r.err, j)
  /\ caller' = "idle"
  /\ UNCHANGED <<calls, callConn, workers, crashed, tainted, sentOn, scrapeOnly, probe, server>>

\* case err := <-errCh
SelectError ==
  /\ caller = "select" /\ ~crashed
  /\ \E j \in Receivable(Current) :
       /\ workers[j].errCh # Nil
       /\ LET r == Select(World, [out |-> "error", re |-> <<>>,
                                  err |-> workers[j].errCh]) IN
            /\ SetWorld(r.w)
            /\ last' = Returning("Run", "error", callConn, r.w, r.err, j)
  /\ caller' = "idle"
  /\ UNCHANGED <<calls, callConn, workers, crashed, tainted, sentOn, scrapeOnly, probe, server>>

\* variant: a select without the timer case
SelectWithoutTimer == FALSE /\ UNCHANGED vars

\* case <-time.After(c.Timeout)
SelectTimeout ==
  /\ caller = "select" /\ ~crashed
  /\ LET r == Select(World, [out |-> "timeout", re |-> <<>>, err |-> Nil]) IN
       /\ SetWorld(r.w)
       /\ last' = Returning("Run", "timeout", callConn, r.w, r.err, Current)
  /\ tainted' = tainted \cup {client}
  /\ caller' = "idle"
  /\ UNCHANGED <<calls, callConn, workers, crashed, sentOn, scrapeOnly, probe, server>>

SessionNext ==
  \/ SessionConnect
  \/ SessionClose
  \/ RunStart
  \/ \E k \in DOMAIN workers : WorkerRead(k)
  \/ \E k \in DOMAIN workers : WorkerSend(k)
  \/ \E k \in DOMAIN workers : DeviceReply(k)
  \/ \E k \in DOMAIN workers : DeviceError(k)
  \/ SelectReply
  \/ SelectError
  \/ SelectTimeout

SpecSession == SessionInit /\ [][SessionNext]_vars

\* the session with a timer that fires: time.After delivers after c.Timeout,
\* and a select with a ready case is not left waiting for ever.  Nothing is
\* assumed of the worker or of the device.
SpecSessionFair == SpecSession /\ WF_vars(SelectTimeout)

(***************************************************************************)
(* The collectors on their own.  One collector is called once, on a        *)
(* session without or with a connection, and the device is given replies   *)
(* of every content drawn from the sets below; probe keeps the call: the   *)
(* collector (unit), the device's behaviour on each of its commands (d)    *)
(* and what the collector returned (r).                                    *)
(***************************************************************************)
\* longest /interface/print reply the interface collector is called with
MaxListed == 2

TxtWan == <<"w", "a", "n">>
\* a name with "ppp" in mixed case inside it
TxtMixedPpp == <<"m", "y", "P", "p", "P">>

\* the names and types of the interfaces a device may list; an empty text
\* is also what a missing field reads as
ListedNames == {<<>>, TxtEther1, TxtWan, TxtMixedPpp}
ListedTypes == {<<>>, TxtEther, TxtPppOut}
ListedSentences == [name : ListedNames, type : ListedTypes]

\* the /interface/print replies of up to MaxListed sentences; the names of
\* a device's interfaces are unique
ListedReplies ==
  {re \in UNION {[1..k -> ListedSentences] : k \in 0..MaxListed} :
     \A i, j \in DOMAIN re : (i # j /\ re[i].name # <<>>) => re[i].name # re[j].name}

\* detail and statistics of an interface the first loop leaves out
DetailSentencePpp ==
  [name |-> TxtMixedPpp, comment |-> TxtUplink, running |-> TxtTrue]
StatsSentencePpp ==
  [name |-> TxtMixedPpp] @@ ("rx-byte" :> <<"9">>) @@ ("tx-byte" :> <<"9">>)

ListedDetailReplies == {<<>>, <<DetailSentence, DetailSentencePpp>>}
ListedStatsReplies == {<<>>, <<StatsSentenceA, StatsSentencePpp>>, <<StatsSentenceB>>}

\* the session a collector is called on: as NewClient left it, or connected
StartWorlds == {World, Connect(World).w}

CollectorsInit ==
  /\ pc = "collector"
  /\ collectBGP = FALSE /\ collectPPP = FALSE /\ collectWireless = FALSE
  /\ InitWorld
  /\ InitSession
  /\ InitCollect
  /\ probe = NoProbe /\ server = NoServer

\* GetInterfaceStats called once
\* GetInterfaceStats after its deferred recover ended a panic: the results
\* of the function are unnamed and no return statement was reached, so the
\* caller gets their zero values, a nil slice and a nil error
Recovered(r) == [w |-> r.w, stats |-> <<>>, err |-> Nil]

\* whether the call that returned r came to the k-th sentence of the
\* statistics reply: the statistics command was its last and answered with
\* that many sentences, and some interface is kept
ReachedSentence(r, k) ==
  /\ r.err = Nil /\ r.stats # <<>>
  /\ r.w.called # <<>>
  /\ LET lastCall == r.w.called[Len(r.w.called)]
     IN lastCall.cmd = CmdInterfaceStats /\ lastCall.err = Nil
        /\ k <= lastCall.records

\* GetInterfaceStats when the statistics loop panics at the k-th sentence of
\* the reply; r is what it returns without the panic
Panicking(r, k) == IF ReachedSentence(r, k) THEN Recovered(r) ELSE r

\* GetInterfaceStats called once, the statistics loop panicking at one of
\* the sentences of the reply
CallGetInterfaceStatsPanicking ==
  /\ probe.unit = "none"
  /\ \E d1 \in Behaviours(ListedReplies) :
     \E d2 \in Behaviours(ListedDetailReplies) :
     \E d3 \in Behaviours(ListedStatsReplies) :
     \E k \in 1..Len(d3.re) :
       /\ ReachedSentence(GetInterfaceStats(Connect(World).w, d1, d2, d3), k)
       /\ probe' = [unit |-> "GetInterfaceStatsPanicking", arg |-> k,
                    d |-> <<d1, d2, d3>>,
                    r |-> Panicking(GetInterfaceStats(Connect(World).w, d1, d2, d3), k)]
  /\ UNCHANGED <<scrapeVars, sessionVars, server>>

CallGetInterfaceStats ==
  /\ probe.unit = "none"
  /\ \E w \in StartWorlds :
     \E d1 \in Behaviours(ListedReplies) :
     \E d2 \in Behaviours(ListedDetailReplies) :
     \E d3 \in Behaviours(ListedStatsReplies) :
       probe' = [unit |-> "GetInterfaceStats", arg |-> 0, d |-> <<d1, d2, d3>>,
                 r |-> GetInterfaceStats(w, d1, d2, d3)]
  /\ UNCHANGED <<scrapeVars, sessionVars, server>>

\* the texts a device may put in a counter field: empty, numbers, and one
\* that is no number
CounterTexts == {<<>>, <<"5">>, <<"7">>, <<"x">>}

\* the sentences that hold some of fields, each with one of the texts
Aliased(fields) ==
  UNION {[present -> CounterTexts] :
           present \in SUBSET {fields[i] : i \in DOMAIN fields}}

\* the alias lists of GetInterfaceStats and of GetBGPPeerStats, in the order
\* of their loops
InterfaceCounterAliases ==
  <<rxBytesFields, txBytesFields, rxPacketsFields, txPacketsFields,
    rxErrorsFields, txErrorsFields, rxDropsFields, txDropsFields>>
BGPCounterAliases ==
  <<prefixCountFields, updatesSentFields, updatesRecvFields,
    withdrawsSentFields, withdrawsRecvFields>>

Replied(re) == [out |-> "reply", re |-> re, err |-> Nil]

\* GetInterfaceStats called on a device with one interface whose statistics
\* sentence holds the aliases of the counter of loop k in every pattern
CallInterfaceCounters ==
  /\ probe.unit = "none"
  /\ \E k \in DOMAIN InterfaceCounterAliases :
     \E m \in Aliased(InterfaceCounterAliases[k]) :
       LET d1 == Replied(<<[name |-> TxtEther1, type |-> TxtEther]>>)
           d2 == Replied(<<DetailSentence>>)
           d3 == Replied(<<("name" :> TxtEther1) @@ m>>)
       IN probe' = [unit |-> "InterfaceCounters", arg |-> k, d |-> <<d1, d2, d3>>,
                    r |-> GetInterfaceStats(Connect(World).w, d1, d2, d3)]
  /\ UNCHANGED <<scrapeVars, sessionVars, server>>

\* GetBGPPeerStats called on a device with one peer whose sentence holds the
\* aliases of the counter of loop k in every pattern
CallBGPCounters ==
  /\ probe.unit = "none"
  /\ \E k \in DOMAIN BGPCounterAliases :
     \E m \in Aliased(BGPCounterAliases[k]) :
       LET d1 == Replied(<<("name" :> <<"p", "1">>) @@ m>>)
       IN probe' = [unit |-> "BGPCounters", arg |-> k, d |-> <<d1, Unused>>,
                    r |-> GetBGPPeerStats(Connect(World).w, d1, Unused)]
  /\ UNCHANGED <<scrapeVars, sessionVars, server>>

\* GetBGPPeerStats called once
CallGetBGPPeerStats ==
  /\ probe.unit = "none"
  /\ \E w \in StartWorlds :
     \E d1 \in Behaviours(BGPReplies \cup {<<>>}) :
     \E d2 \in Behaviours(BGPReplies \cup {<<>>}) :
       probe' = [unit |-> "GetBGPPeerStats", arg |-> 0, d |-> <<d1, d2>>,
                 r |-> GetBGPPeerStats(w, d1, d2)]
  /\ UNCHANGED <<scrapeVars, sessionVars, server>>

\* a number that does not fit the unsigned width
TxtTooLarge == <<"9", "9", "9", "9", "9", "9", "9">>

\* the text of a field its parser takes, by the kind of the field
GoodText(kind) == IF kind = "duration" THEN <<"5", "s">> ELSE <<"5">>

\* the texts it does not take: none, no number, and for the kind a duration
\* without unit or with an unknown one, a number out of range, a number with
\* two points
BadTexts(kind) ==
  CASE kind = "duration" -> {<<>>, <<"x">>, <<"5">>, <<"5", "x">>}
    [] kind \in {"uint", "int"} -> {<<>>, <<"x">>, TxtTooLarge}
    [] kind = "float" -> {<<>>, <<"x">>, <<"5", ".", "5", ".", "5">>}

\* the fields a collector parses: the field of the sentence, the attribute
\* of the record it sets, and its kind
ParsedFields(unit) ==
  CASE unit = "GetSystemResources" ->
         << <<"uptime", "Uptime", "duration">>,
            <<"free-memory", "FreeMemory", "uint">>,
            <<"total-memory", "TotalMemory", "uint">>,
            <<"cpu-load", "CPULoad", "uint">>,
            <<"free-hdd-space", "FreeHDDSpace", "uint">>,
            <<"total-hdd-space", "TotalHDDSpace", "uint">> >>
    [] unit = "GetSystemHealth" ->
         << <<"temperature", "Temperature", "float">>,
            <<"voltage", "Voltage", "float">>,
            <<"current", "Current", "float">>,
            <<"power-consumption", "PowerConsumed", "float">>,
            <<"fan1-speed", "FanSpeed", "uint">> >>
    [] unit = "GetBGPPeerStats" ->
         << <<"uptime", "Uptime", "duration">>,
            <<"prefix-count", "PrefixCount", "uint">>,
            <<"updates-sent", "UpdatesSent", "uint">> >>
    [] unit = "GetPPPActiveUsers" ->
         << <<"uptime", "Uptime", "duration">>,
            <<"bytes-in", "RxBytes", "uint">>,
            <<"bytes-out", "TxBytes", "uint">> >>
    [] unit = "FetchWirelessClients" ->
         << <<"signal-strength", "SignalStrength", "int">>,
            <<"tx-ccq", "TxCCQ", "int">> >>
    [] unit = "FetchWirelessInterfaces" ->
         << <<"frequency", "Frequency", "int">>,
            <<"signal-strength", "SignalStrength", "int">>,
            <<"tx-rate", "TxRate", "float">>,
            <<"rx-rate", "RxRate", "float">> >>

ParsingCollectors ==
  {"GetSystemResources", "GetSystemHealth", "GetBGPPeerStats", "GetPPPActiveUsers",
   "FetchWirelessClients", "FetchWirelessInterfaces"}

\* the fields that make a sentence a record of the collector
KeyFields(unit) ==
  CASE unit \in {"GetBGPPeerStats", "GetPPPActiveUsers"} -> [name |-> <<"p", "1">>]
    [] unit = "FetchWirelessClients" ->
         [interface |-> <<"w", "l", "a", "n", "1">>] @@ ("mac-address" :> TxtMac)
    [] OTHER -> <<>>

\* the sentence with text texts[k] in the k-th parsed field; a field without
\* text is left out of it when missing
FieldSentence(unit, texts, missing) ==
  LET kept == {k \in DOMAIN texts : ~(missing /\ texts[k] = <<>>)}
      at(f) == CHOOSE k \in kept : ParsedFields(unit)[k][1] = f
  IN KeyFields(unit)
       @@ [f \in {ParsedFields(unit)[k][1] : k \in kept} |-> texts[at(f)]]

\* the collector called on a connected session whose device replies with
\* the one sentence
CallCollector(unit, sentence) ==
  CASE unit = "GetSystemResources" ->
         GetSystemResources(Connect(World).w, Replied(<<sentence>>))
    [] unit = "GetSystemHealth" ->
         GetSystemHealth(Connect(World).w, Replied(<<sentence>>))
    [] unit = "GetBGPPeerStats" ->
         GetBGPPeerStats(Connect(World).w, Replied(<<sentence>>), Unused)
    [] unit = "GetPPPActiveUsers" ->
         GetPPPActiveUsers(Connect(World).w, Replied(<<sentence>>))
    [] unit = "FetchWirelessClients" ->
         FetchWirelessClients(Connect(World).w, Replied(<<sentence>>))
    [] unit = "FetchWirelessInterfaces" ->
         FetchWirelessInterfaces(Connect(World).w, Replied(<<WlanSentence(1)>>),
                                 <<Replied(<<sentence>>)>>)

\* the texts a field of the kind may hold
Texts(kind) == {GoodText(kind)} \cup BadTexts(kind)

\* the texts of the parsed fields of a collector, each good or bad
FieldTexts(unit) ==
  {texts \in [DOMAIN ParsedFields(unit) ->
                UNION {Texts(kind) : kind \in {"duration", "uint", "int", "float"}}] :
     \A k \in DOMAIN texts : texts[k] \in Texts(ParsedFields(unit)[k][3])}

\* a collector called on a sentence whose parsed fields hold good and bad
\* texts in every combination
CallOnFieldTexts ==
  /\ probe.unit = "none"
  /\ \E unit \in ParsingCollectors : \E missing \in BOOLEAN :
     \E texts \in FieldTexts(unit) :
       probe' = [unit |-> "FieldTexts", arg |-> unit,
                 d |-> <<FieldSentence(unit, texts, missing)>>,
                 r |-> CallCollector(unit, FieldSentence(unit, texts, missing))]
  /\ UNCHANGED <<scrapeVars, sessionVars, server>>

\* longest text parseMikrotikDuration is called with
MaxDuration == 4

\* the characters of those texts: digits, the point, the units and a
\* character that is neither
DurationChars == {"1", "5", ".", "w", "d", "h", "m", "s", "x"}

\* the longest duration one group of a text stands for: the durations of
\* the texts stay far inside the range of time.Duration
MaxGroupDuration == 1073741823

\* no whole number in front of a unit of time stands for more than that
GroupsInRange(str) ==
  \A i \in DOMAIN str : \A j \in 1..i - 1 :
    (/\ str[i] \in {"w", "d", "h", "m", "s"}
     /\ AllDigits(SubSeq(str, j, i - 1)))
    => NatOf(SubSeq(str, j, i - 1)) <=
         MaxGroupDuration \div
           (CASE str[i] = "w" -> 7 * 24 * Hour
              [] str[i] = "d" -> 24 * Hour
              [] str[i] = "h" -> Hour
              [] str[i] = "m" -> Minute
              [] str[i] = "s" -> Second)

\* parseMikrotikDuration called once
CallParseMikrotikDuration ==
  /\ probe.unit = "none"
  /\ \E n \in 0..MaxDuration :
       \E str \in {t \in [1..n -> DurationChars] : GroupsInRange(t)} :
         probe' = [unit |-> "parseMikrotikDuration", arg |-> 0, d |-> <<str>>,
                   r |-> parseMikrotikDuration(str)]
  /\ UNCHANGED <<scrapeVars, sessionVars, server>>

\* the entries of a wireless list: two interfaces, an entry without name
\* and one without id
WlanEntries ==
  {WlanSentence(1), WlanSentence(2),
   [name |-> <<>>] @@ (".id" :> <<"*", "3">>),
   [name |-> <<"w", "l", "a", "n", "4">>]}

\* a second monitor sentence, of another network
MonitorSentenceB ==
  [ssid |-> <<"o", "f", "f", "i", "c", "e">>, frequency |-> <<"2", "4", "1", "2">>]

\* what a monitor command is met with: a reply of no, one or two sentences,
\* an error, silence, or the device gone
MonitorBehaviours ==
  Behaviours({<<>>, <<MonitorSentenceA>>, <<MonitorSentenceB>>,
              <<MonitorSentenceA, MonitorSentenceB>>}) \ 
    [out : {"error"}, re : {<<>>}, err : DeviceErrors \ {ErrFailure}]

\* FetchWirelessInterfaces called once on a list of up to MaxWlan entries
CallFetchWirelessInterfaces ==
  /\ probe.unit = "none"
  /\ \E n \in 0..MaxWlan :
     \E re \in [1..n -> WlanEntries] :
     \E ds \in [1..n -> MonitorBehaviours] :
       probe' = [unit |-> "FetchWirelessInterfaces", arg |-> 0,
                 d |-> <<[out |-> "reply", re |-> re, err |-> Nil], ds>>,
                 r |-> FetchWirelessInterfaces(
                         Connect(World).w,
                         [out |-> "reply", re |-> re, err |-> Nil], ds)]
  /\ UNCHANGED <<scrapeVars, sessionVars, server>>

\* the sentences of two devices' worth of peers and of dial-up sessions:
\* two names, and two remote systems or two caller addresses
PeerSentences ==
  {[[BGPSentenceA EXCEPT !.name = n] EXCEPT !["remote-as"] = as] :
     n \in {<<"p", "1">>, <<"p", "2">>}, as \in {<<"6", "5">>, <<"6", "6">>}}

SessionSentences ==
  {[name |-> n, service |-> PPPSentenceA.service, uptime |-> <<"3", "m">>]
     @@ ("caller-id" :> id) :
     n \in {<<"u", "1">>, <<"u", "2">>}, id \in {<<"a">>, <<"b">>}}

\* the records the loops of Collect emit for what the named collector
\* returns on the reply re
Emitted(unit, re) ==
  CASE unit = "GetInterfaceStats" ->
         InterfaceMetrics(GetInterfaceStats(Connect(World).w, Replied(re),
                                            Replied(re), Replied(<<>>)).stats)
    [] unit = "GetBGPPeerStats" ->
         BGPMetrics(GetBGPPeerStats(Connect(World).w, Replied(re), Unused).stats)
    [] unit = "GetPPPActiveUsers" ->
         PPPMetrics(GetPPPActiveUsers(Connect(World).w, Replied(re)).stats)

\* the sentences a reply to the named collector is made of
SentencesFor(unit) ==
  CASE unit = "GetInterfaceStats" -> ListedSentences
    [] unit = "GetBGPPeerStats" -> PeerSentences
    [] unit = "GetPPPActiveUsers" -> SessionSentences

\* one collector called on a reply of up to MaxListed sentences, names
\* repeated or not, and its result emitted
CallAndEmit ==
  /\ probe.unit = "none"
  /\ \E unit \in {"GetInterfaceStats", "GetBGPPeerStats", "GetPPPActiveUsers"} :
     \E n \in 1..MaxListed :
     \E re \in [1..n -> SentencesFor(unit)] :
       probe' = [unit |-> "Emitted", arg |-> unit, d |-> <<re>>,
                 r |-> Emitted(unit, re)]
  /\ UNCHANGED <<scrapeVars, sessionVars, server>>

\* the texts of a memory or storage field: none, no number, two small
\* numbers, and a number of kibibytes whose count of bytes exceeds the width
SizeTexts == {<<>>, <<"x">>, <<"5">>, <<"9">>, <<"9", "9", "9", "9">>}

\* GetSystemResources called once on a reply with those texts in its four
\* size fields, and its result emitted
CallSystemResourcesAndEmit ==
  /\ probe.unit = "none"
  /\ \E free, total, freeHDD, totalHDD \in SizeTexts :
       LET sentence ==
             ("free-memory" :> free) @@ ("total-memory" :> total)
               @@ ("free-hdd-space" :> freeHDD) @@ ("total-hdd-space" :> totalHDD)
               @@ SysSentenceA
       IN probe' = [unit |-> "SystemResourcesEmitted", arg |-> 0, d |-> <<sentence>>,
                    r |-> SystemResourceMetrics(
                            GetSystemResources(Connect(World).w,
                                               Replied(<<sentence>>)).res[1])]
  /\ UNCHANGED <<scrapeVars, sessionVars, server>>

CollectorsNext ==
  \/ CallGetInterfaceStats
  \/ CallSystemResourcesAndEmit
  \/ CallAndEmit
  \/ CallFetchWirelessInterfaces
  \/ CallGetInterfaceStatsPanicking
  \/ CallParseMikrotikDuration
  \/ CallOnFieldTexts
  \/ CallGetBGPPeerStats
  \/ CallInterfaceCounters
  \/ CallBGPCounters

SpecCollectors == CollectorsInit /\ [][CollectorsNext]_vars

(***************************************************************************)
(* The server.  handleMetricsRequest runs once per request, several at a   *)
(* time; each invocation has its locals and makes its objects.             *)
(***************************************************************************)
Targets == {<<"r", "1">>, <<"r", "2">>}

\* the commands of Collect the server is followed through: its first two
ServedCommands == <<CmdSystemResource, CmdRouterboard>>

\* variant: one Client object serves every request
NewClientShared(clients, address) ==
  IF clients = <<>>
  THEN [clients |-> <<[address |-> address, client |-> NoConn]>>, ref |-> 1]
  ELSE [clients |-> clients, ref |-> 1]

\* mikrotik.NewClient: a new Client object, without connection
NewClient(clients, address) ==
  [clients |-> Append(clients, [address |-> address, client |-> NoConn]),
   ref |-> Len(clients) + 1]

\* metrics.NewMikrotikCollector and registry.MustRegister: a new collector
\* that holds the client, in a new registry; ch is what its Collect sent
NewMikrotikCollector(collectors, clientRef) ==
  [collectors |-> Append(collectors, [client |-> clientRef, ch |-> <<>>]),
   ref |-> Len(collectors) + 1]

ServerInit ==
  /\ pc = "server"
  /\ collectBGP = FALSE /\ collectPPP = FALSE /\ collectWireless = FALSE
  /\ InitWorld
  /\ InitSession
  /\ InitCollect
  /\ probe = NoProbe /\ server = NoServer

\* handleMetricsRequest up to ServeHTTP
HandleMetricsRequest(r) ==
  /\ server.pc[r] = "idle"
  /\ \E target \in Targets :
       LET c == NewClient(server.clients, target)
           k == NewMikrotikCollector(server.collectors, c.ref)
       IN server' = [server EXCEPT !.pc[r] = "serving",
                                   !.target[r] = target,
                                   !.clients = c.clients,
                                   !.client[r] = c.ref,
                                   !.collectors = k.collectors,
                                   !.collector[r] = k.ref]
  /\ UNCHANGED <<scrapeVars, sessionVars, probe>>

\* one command of the Collect that ServeHTTP runs on the request's
\* registry: the collector's client connects if it has no connection, the
\* command is sent, and either a record is sent to ch or the client is
\* closed
ServeCommand(r) ==
  /\ server.pc[r] = "serving"
  /\ server.ran[r] < Len(ServedCommands)
  /\ \E ok \in {b \in BOOLEAN : b \/ server.faults < MaxFaults} :
       LET k == server.collector[r]
           c == server.collectors[k].client
           dial == server.clients[c].client = NoConn
           conns == IF dial
                    THEN Append(server.conns,
                                [by |-> r, address |-> server.clients[c].address])
                    ELSE server.conns
           conn == IF dial THEN Len(conns) ELSE server.clients[c].client
       IN server' =
            [server EXCEPT
               !.conns = conns,
               !.sent = @ \cup {[by |-> r, conn |-> conn,
                                  cmd |-> ServedCommands[server.ran[r] + 1]]},
               !.clients[c].client = IF ok THEN conn ELSE NoConn,
               !.collectors[k].ch =
                  IF ok THEN Append(@, [by |-> r, from |-> conns[conn].address])
                  ELSE @,
               !.faults = IF ok THEN @ ELSE @ + 1,
               !.ran[r] = @ + 1]
  /\ UNCHANGED <<scrapeVars, sessionVars, probe>>

\* ServeHTTP writes what the request's registry gathered
ServeHTTP(r) ==
  /\ server.pc[r] = "serving"
  /\ server' = [server EXCEPT
                  !.pc[r] = "served",
                  !.response[r] = server.collectors[server.collector[r]].ch]
  /\ UNCHANGED <<scrapeVars, sessionVars, probe>>

\* handleMetricsRequest after ServeHTTP: client.Close()
RequestClose(r) ==
  /\ server.pc[r] = "served"
  /\ server' = [server EXCEPT !.pc[r] = "closed",
                              !.clients[server.client[r]].client = NoConn]
  /\ UNCHANGED <<scrapeVars, sessionVars, probe>>

ServerNext ==
  \/ \E r \in Requests : HandleMetricsRequest(r)
  \/ \E r \in Requests : ServeCommand(r)
  \/ \E r \in Requests : ServeHTTP(r)
  \/ \E r \in Requests : RequestClose(r)

SpecServer == ServerInit /\ [][ServerNext]_vars

(***************************************************************************)
(* Properties of the scrape                                                *)
(***************************************************************************)
\* Collect has returned
Returned == pc \in {"returned", "closed"}

\* the initial Connect succeeded: the device accepted a connection
ConnectSucceeded == opened > 0

\* the initial Connect failed
ConnectFailed == pc # "connect" /\ opened = 0

\* the records sent for the given metrics, in the order sent
Records(descs) == SelectSeq(ch, LAMBDA m : m.desc \in descs)

\* some collector that ran returned an error
SomeCollectorFailed == \E i \in DOMAIN returns : returns[i].failed

AllEnabled == collectBGP /\ collectPPP /\ collectWireless

\* C1: after a successful initial connect, for every choice of the three
\* flags and of the collectors' outcomes, the scrape reports
\* last_scrape_error = 1 exactly when some collector that ran returned an
\* error; a collector that returned nothing without error adds nothing.
C1_ErrorIffSomeCollectorFailed ==
  (Returned /\ ConnectSucceeded) =>
    /\ Len(Records({"lastScrapeErrorDesc"})) = 1
    /\ Records({"lastScrapeErrorDesc"})[1].value = 1 <=> SomeCollectorFailed

\* all eight collectors ran and only the PPP collector failed, on a command
\* the device answered with an error or not at all
C1_Witness ==
  /\ Returned /\ AllEnabled /\ Len(returns) = 8
  /\ \A i \in DOMAIN returns : returns[i].failed <=> i = 6
  /\ faults = MaxFaults
  /\ Records({"lastScrapeErrorDesc"})[1].value = 1

\* C2: up is 1 from the successful initial connect on, and the scrape
\* reports up = 1 exactly when the initial connect succeeded, whatever the
\* collectors returned.
C2_UpIffConnected ==
  /\ ConnectSucceeded => up = 1
  /\ Returned =>
       /\ Len(Records({"upDesc"})) = 1
       /\ Records({"upDesc"})[1].value = 1 <=> ConnectSucceeded

\* every one of the eight collectors failed and the scrape reported up = 1
C2_Witness ==
  /\ Returned /\ AllEnabled /\ Len(returns) = 8
  /\ \A i \in DOMAIN returns : returns[i].failed
  /\ Records({"upDesc"})[1].value = 1

\* C3: when the initial connect fails, Collect returns at once having sent
\* exactly up = 0, the duration and last_scrape_error = 1; no collector is
\* called and the device receives no command.
C3_ConnectFailureEndsScrape ==
  ConnectFailed =>
    /\ Returned
    /\ Len(ch) = 3
    /\ ch[1] = Metric("upDesc", 0, <<>>)
    /\ ch[2].desc = "scrapeDurationDesc"
    /\ ch[3] = Metric("lastScrapeErrorDesc", 1, <<>>)
    /\ invoked = <<>>
    /\ issued = <<>>

\* the handler closed the client of a scrape whose connect failed
C3_Witness == ConnectFailed /\ pc = "closed" /\ Len(ch) = 3

ScrapeDescs == {"upDesc", "scrapeDurationDesc", "lastScrapeErrorDesc"}

\* C4: on every path through Collect each of up, scrape duration and
\* last_scrape_error is sent exactly once, and none before Collect ends.
C4_ScrapeMetricsExactlyOnce ==
  \A d \in ScrapeDescs : Len(Records({d})) = IF Returned THEN 1 ELSE 0

\* a scrape with a collector disabled, one failed and one succeeded
C4_Witness ==
  /\ Returned /\ ConnectSucceeded /\ ~collectBGP /\ collectPPP
  /\ \E i, j \in DOMAIN returns : returns[i].failed /\ ~returns[j].failed
  /\ \A d \in ScrapeDescs : Len(Records({d})) = 1

SystemDescs ==
  {"cpuLoadDesc", "memoryUsageDesc", "totalMemoryDesc", "uptimeDesc",
   "storageTotalBytesDesc", "storageFreeBytesDesc", "storageUsedBytesDesc"}
CounterDescs ==
  {"interfaceRxBytesDesc", "interfaceTxBytesDesc", "interfaceRxPacketsDesc",
   "interfaceTxPacketsDesc", "interfaceRxErrorsDesc", "interfaceTxErrorsDesc",
   "interfaceRxDropsDesc", "interfaceTxDropsDesc"}
InterfaceDescs == {"interfaceInfoDesc"} \cup CounterDescs
HealthDescs ==
  {"temperatureDesc", "voltageDesc", "currentDesc", "powerConsumedDesc", "fanSpeedDesc"}
BGPDescs ==
  {"bgpPeerInfoDesc", "bgpPeerStateDesc", "bgpPeerUptimeDesc", "bgpPeerPrefixCountDesc",
   "bgpPeerUpdatesSentDesc", "bgpPeerUpdatesRecvDesc", "bgpPeerWithdrawsSentDesc",
   "bgpPeerWithdrawsRecvDesc"}
PPPDescs == {"pppActiveCountDesc", "pppUserInfoDesc", "pppUserUptimeDesc"}
WirelessInterfaceDescs ==
  {"wirelessInterfaceInfoDesc", "wirelessInterfaceSignalStrengthDesc",
   "wirelessInterfaceTxRateDesc", "wirelessInterfaceRxRateDesc"}
WirelessClientDescs ==
  {"wirelessClientInfoDesc", "wirelessClientSignalStrengthDesc",
   "wirelessClientTxCCQDesc", "wirelessActiveClientsDesc"}

\* the scrape connected, system resources and routerboard succeeded and the
\* interface statistics command timed out
StatsTimedOut ==
  /\ Returned /\ ConnectSucceeded /\ Len(returns) >= 3
  /\ ~returns[1].failed /\ ~returns[2].failed
  /\ statsOutcome = "timeout"

\* the listed interfaces that have a name and are no PPP interface
Monitored ==
  {i \in DOMAIN listed :
     /\ Get(listed[i], "name") # <<>>
     /\ ~Contains(ToLower(Get(listed[i], "name")), <<"p", "p", "p">>)
     /\ ~Contains(ToLower(Get(listed[i], "type")), <<"p", "p", "p">>)}

\* the records of the scrape show system resources, the routerboard and
\* every monitored interface once, with its name and type and eight zero
\* counters, and no other interface
StatsTimedOutRecords ==
  /\ Len(Records({"upDesc"})) = 1 /\ Records({"upDesc"})[1].value = 1
  /\ Len(Records(SystemDescs)) = 7
  /\ Len(Records({"boardInfoDesc"})) = 1
  /\ Records({"boardInfoDesc"})[1].labels[1] # <<>>
  /\ Len(Records({"interfaceInfoDesc"})) = Cardinality(Monitored)
  /\ Len(Records(CounterDescs)) = 8 * Cardinality(Monitored)
  /\ \A i \in Monitored :
       /\ \E k \in DOMAIN ch :
            /\ ch[k].desc = "interfaceInfoDesc"
            /\ ch[k].labels[1] = listed[i].name
            /\ ch[k].labels[2] = listed[i].type
       /\ \A d \in CounterDescs :
            \E k \in DOMAIN ch :
              ch[k] = Metric(d, 0, <<listed[i].name>>)

ExpectedCollectors ==
  <<"GetSystemResources", "GetRouterboard", "GetInterfaceStats", "GetSystemHealth">>
    \o (IF collectBGP THEN <<"GetBGPPeerStats">> ELSE <<>>)
    \o (IF collectPPP THEN <<"GetPPPActiveUsers">> ELSE <<>>)
    \o (IF collectWireless
        THEN <<"FetchWirelessInterfaces", "FetchWirelessClients">> ELSE <<>>)

NoDuplicates(seq) == \A i, j \in DOMAIN seq : i # j => seq[i] # seq[j]

\* C6: within one scrape no collector is called twice and the device
\* receives no command twice; a collector that fails does not end the
\* scrape: the collectors called are always the first of those enabled, in
\* order, and when Collect returns after a successful connect they are all
\* of them.
C6_NoRetryNoAbort ==
  /\ NoDuplicates(invoked)
  /\ NoDuplicates(issued)
  /\ Len(invoked) <= Len(ExpectedCollectors)
  /\ invoked = SubSeq(ExpectedCollectors, 1, Len(invoked))
  /\ (Returned /\ ConnectSucceeded) => invoked = ExpectedCollectors

\* the first and the third of eight collectors failed, the others ran
C6_Witness ==
  /\ Returned /\ AllEnabled /\ Len(invoked) = 8
  /\ returns[1].failed /\ returns[3].failed /\ ~returns[8].failed

\* the records that stand for the result res of the named collector
ResultRecords(name, res) ==
  CASE name = "GetSystemResources" -> SystemResourceMetrics(res[1])
    [] name = "GetRouterboard" -> BoardInfoNoPlaceholder(FALSE, FALSE, res)
    [] name = "GetInterfaceStats" -> InterfaceMetrics(res)
    [] name = "GetSystemHealth" -> IF res = <<>> THEN <<>> ELSE HealthMetrics(res[1])
    [] name = "GetBGPPeerStats" -> BGPMetrics(res)
    [] name = "GetPPPActiveUsers" -> PPPMetrics(res)
    [] name = "FetchWirelessInterfaces" -> WirelessInterfaceMetrics(res)
    [] name = "FetchWirelessClients" ->
         WirelessClientMetrics(res, CHOOSE o \in KeyOrders({res[i].Interface : i \in DOMAIN res}) : TRUE)

\* the metrics of the named collector's subsystem
SubsystemDescs(name) ==
  CASE name = "GetSystemResources" -> SystemDescs
    [] name = "GetRouterboard" -> {"boardInfoDesc"}
    [] name = "GetInterfaceStats" -> InterfaceDescs
    [] name = "GetSystemHealth" -> HealthDescs
    [] name = "GetBGPPeerStats" -> BGPDescs
    [] name = "GetPPPActiveUsers" -> PPPDescs
    [] name = "FetchWirelessInterfaces" -> WirelessInterfaceDescs
    [] name = "FetchWirelessClients" -> WirelessClientDescs

\* the i-th collector called: its records were sent if and only if it
\* returned without error
OwnOutcomeDecides(i) ==
  Records(SubsystemDescs(invoked[i])) =
    IF returns[i].failed THEN <<>> ELSE ResultRecords(invoked[i], returns[i].res)

\* C7 as stated: when Collect returns, each subsystem's records were sent if
\* and only if its own collector returned without error; a failed subsystem
\* has no record at all, a successful one all records of its result.
C7_RecordsIffOwnSuccess ==
  Returned => \A i \in DOMAIN returns : OwnOutcomeDecides(i)

\* C7 amended: that holds of every subsystem but the routerboard; the board
\* info record is sent if and only if the system resources collector
\* returned without error, from the routerboard result when the routerboard
\* collector succeeded and with seven empty labels when it failed.
C7_RecordsIffOwnSuccessButBoardInfo ==
  Returned =>
    /\ \A i \in DOMAIN returns : invoked[i] # "GetRouterboard" => OwnOutcomeDecides(i)
    /\ Len(returns) >= 2 =>
         Records({"boardInfoDesc"}) =
           IF returns[1].failed THEN <<>>
           ELSE IF returns[2].failed
           THEN <<Metric("boardInfoDesc", 1, <<<<>>, <<>>, <<>>, <<>>, <<>>, <<>>, <<>>>>)>>
           ELSE ResultRecords("GetRouterboard", returns[2].res)

\* the routerboard collector failed after system resources had succeeded,
\* a later collector failed and another succeeded
C7_Witness ==
  /\ Returned /\ AllEnabled /\ Len(returns) = 8
  /\ ~returns[1].failed /\ returns[2].failed /\ ~returns[3].failed /\ returns[5].failed
  /\ Len(Records({"boardInfoDesc"})) = 1
  /\ Len(Records(InterfaceDescs)) > 0



(***************************************************************************)
(* Properties of the session                                               *)
(***************************************************************************)
RunReturned(out) == caller = "idle" /\ last.call = "Run" /\ last.out = out

\* C8: a command only reaches the device on a connection that is live and
\* on which no earlier command errored or timed out; Run on a session
\* without a connection connects first and, when that fails, returns the
\* connect error and starts no command; the connection a Run waits on is
\* never a torn-down one.
C8_OnlyLiveUntaintedConnections ==
  /\ \A i \in DOMAIN sentOn : sentOn[i].live /\ ~sentOn[i].tainted
  /\ (last.call = "Run" /\ last.before = NoConn) =>
       (last.dialled \/ last.out = "connect error")
  /\ RunReturned("connect error") =>
       (last.before = NoConn /\ last.worker = 0 /\ last.err = ErrDial)
  /\ caller = "select" => (callConn = client /\ callConn \in live)

\* C9: after Run returns a reply the session still holds the connection
\* the command went on, open; after it returns a device error or a timeout
\* that connection is closed, the session holds none, and the error
\* returned is the device's, respectively the timeout error.
C9_ExecuteOutcomes ==
  /\ RunReturned("reply") =>
       (last.err = Nil /\ last.after = last.conn /\ last.conn # NoConn /\ last.open)
  /\ RunReturned("error") =>
       (last.err = workers[last.worker].errCh /\ last.err # Nil
          /\ last.after = NoConn /\ ~last.open)
  /\ RunReturned("timeout") =>
       (last.err = ErrTimeout /\ last.after = NoConn /\ ~last.open)

\* every outcome of Run has been seen on a connection that was open
C9_Witness ==
  /\ RunReturned("error")
  /\ last.conn # NoConn /\ last.err = ErrFailure
  /\ \E i \in DOMAIN sentOn : sentOn[i].run = last.worker /\ sentOn[i].conn = last.conn

\* C10: Connect on a session that already holds a connection opens no new
\* connection, keeps the one it holds and returns success.
C10_ConnectIdempotent ==
  (last.call = "Connect" /\ last.before # NoConn) =>
    (~last.dialled /\ last.after = last.before /\ last.out = "ok")


\* C11: at most one connection opened by the session is open at any time,
\* and none stays open that the session no longer references.
C11_AtMostOneOpenConnection == live \subseteq {client}

\* C12: every call of Run returns to its caller, with a reply, a device
\* error or the timeout error, also when the device never answers; the
\* caller is then free to issue the next command.
C12_ExecuteReturns ==
  (caller = "select") ~>
    (caller = "idle" /\ last.call = "Run" /\ last.out \in {"reply", "error", "timeout"})

\* a command reached the device and was never answered, its Run returned
\* the timeout error, and a later Run got its command to the device
C12_Witness ==
  /\ caller = "idle"
  /\ \E k \in DOMAIN workers :
       /\ workers[k].st = "sent"
       /\ \E i \in DOMAIN sentOn : sentOn[i].run > k


\* a connect failed: the initial Connect of Collect, or the lazy connect of
\* a later Run
ConnectErrorRaised ==
  ConnectFailed \/ \E i \in DOMAIN called : called[i].err = ErrDial

\* C13: once a connect error was raised, by the initial connect or by a
\* lazy reconnect inside Run, the scrape calls no further collector.
C13_ConnectErrorAborts ==
  [][ConnectErrorRaised => invoked' = invoked]_vars


(***************************************************************************)
(* Properties of the collectors                                            *)
(***************************************************************************)
\* "ppp" is in the text, in whatever case
MentionsPpp(text) ==
  \E i \in 1..(Len(text) - 2) :
    \A j \in 0..2 : text[i + j] \in {"p", "P"}

InterfacesReturned == probe.unit = "GetInterfaceStats"

\* C14: whatever the list, detail and statistics replies hold, no interface
\* the interface collector returns has "ppp" in its name or in its type,
\* in any case of the letters.
C14_NoPppInterface ==
  InterfacesReturned =>
    \A i \in DOMAIN probe.r.stats :
      ~MentionsPpp(probe.r.stats[i].Name) /\ ~MentionsPpp(probe.r.stats[i].Type)

\* the list held an interface of PPP type and one with "ppp" in its name in
\* mixed case, the detail and statistics replies named the latter, and the
\* collector returned the one interface left
C14_Witness ==
  /\ InterfacesReturned
  /\ \A k \in 1..3 : probe.d[k].out = "reply"
  /\ \E i \in DOMAIN probe.d[1].re : probe.d[1].re[i].name = TxtMixedPpp
  /\ \E i \in DOMAIN probe.d[1].re : probe.d[1].re[i].type = TxtPppOut
  /\ \E i \in DOMAIN probe.d[2].re : probe.d[2].re[i].name = TxtMixedPpp
  /\ \E i \in DOMAIN probe.d[3].re : probe.d[3].re[i].name = TxtMixedPpp
  /\ Len(probe.r.stats) = 1


\* the calls of Run the collector made, in order
ProbeCalls == probe.r.w.called

\* the sentences of the list reply that name an interface to keep
Survivors ==
  SelectSeq(probe.d[1].re,
            LAMBDA x : x.name # <<>> /\ ~MentionsPpp(x.name) /\ ~MentionsPpp(x.type))

NamesAndTypes(stats) ==
  [i \in DOMAIN stats |-> [name |-> stats[i].Name, type |-> stats[i].Type]]

NoDetail(stat) ==
  /\ stat.Comment = <<>> /\ stat.MACAddress = <<>>
  /\ ~stat.Running /\ ~stat.Disabled

NoCounters(stat) ==
  /\ stat.RxBytes = 0 /\ stat.TxBytes = 0 /\ stat.RxPackets = 0 /\ stat.TxPackets = 0
  /\ stat.RxErrors = 0 /\ stat.TxErrors = 0 /\ stat.RxDrops = 0 /\ stat.TxDrops = 0

DetailFailed == Len(ProbeCalls) >= 2 /\ ProbeCalls[2].err # Nil
StatsFailedOrEmpty ==
  Len(ProbeCalls) = 3 /\ (ProbeCalls[3].err # Nil \/ ProbeCalls[3].records = 0)

PresentAt(m, fields) ==
  {i \in DOMAIN fields : fields[i] \in DOMAIN m /\ m[fields[i]] # <<>>}

\* the text of the first alias present, or none
FirstPresent(m, fields) ==
  IF PresentAt(m, fields) = {} THEN <<>>
  ELSE m[fields[CHOOSE i \in PresentAt(m, fields) :
                  \A j \in PresentAt(m, fields) : i <= j]]

\* the value a counter text stands for: its number, zero if it is none
NumberOf(text) == IF text # <<>> /\ AllDigits(text) THEN NatOf(text) ELSE 0

InterfaceCounterNames ==
  <<"RxBytes", "TxBytes", "RxPackets", "TxPackets",
    "RxErrors", "TxErrors", "RxDrops", "TxDrops">>
BGPCounterNames ==
  <<"PrefixCount", "UpdatesSent", "UpdatesRecv", "WithdrawsSent", "WithdrawsRecv">>

CountersResolved == probe.unit \in {"InterfaceCounters", "BGPCounters"}
CounterNames ==
  IF probe.unit = "InterfaceCounters" THEN InterfaceCounterNames ELSE BGPCounterNames
CounterAliases ==
  IF probe.unit = "InterfaceCounters" THEN InterfaceCounterAliases
  ELSE BGPCounterAliases
\* the sentence the counters were resolved from
CounterSentence ==
  IF probe.unit = "InterfaceCounters" THEN probe.d[3].re[1] ELSE probe.d[1].re[1]

\* C16: every counter of the interface collector and of the BGP collector
\* takes the parsed value of the first alias, in the order of its list, that
\* the sentence holds with a non-empty value, whatever later aliases hold;
\* with no such alias it is zero; the collector returns no error.
C16_FirstPresentAliasWins ==
  CountersResolved =>
    /\ probe.r.err = Nil
    /\ Len(probe.r.stats) = 1
    /\ \A k \in DOMAIN CounterNames :
         probe.r.stats[1][CounterNames[k]] =
           NumberOf(FirstPresent(CounterSentence, CounterAliases[k]))

\* a counter whose first alias is empty, whose second holds 5 and whose
\* third holds 7 was resolved to 5, in the interface collector
C16_Witness ==
  /\ probe.unit = "InterfaceCounters" /\ probe.arg = 3
  /\ {"rx-packet", "rx-packets", "packets-in"} \subseteq DOMAIN CounterSentence
  /\ CounterSentence["rx-packet"] = <<>>
  /\ CounterSentence["rx-packets"] = <<"5">>
  /\ CounterSentence["packets-in"] = <<"7">>
  /\ probe.r.stats[1].RxPackets = 5

(***************************************************************************)
(* The BGP fallback                                                        *)
(***************************************************************************)
BGPReturned == probe.unit = "GetBGPPeerStats"

\* the device rejected the command as not recognized or as disabled
Rejected(err) == err \in Absent

\* the calls of Run with the legacy command
LegacyCalls == {i \in DOMAIN ProbeCalls : ProbeCalls[i].cmd = CmdBGPPeerLegacy}

LastAttempt == ProbeCalls[Len(ProbeCalls)]
\* the path of the command that is not cmd
OtherPath(cmd) ==
  IF cmd = CmdBGPPeer THEN CmdBGPPeerLegacy.words[1] ELSE CmdBGPPeer.words[1]

LastCall == called'[Len(called')]
\* the step called Run
CalledRun == Len(called') > Len(called)
\* what the collector of the step returned to Collect
LastReturn == returns'[Len(returns')]

\* the health command was answered "not recognized" or "disabled", or with
\* a reply of no record
HealthNotSupported ==
  /\ pc = "health" /\ CalledRun /\ LastCall.cmd = CmdSystemHealth
  /\ \/ LastCall.err \in {ErrNoSuchCommand, ErrUnknownCommandName, ErrDisabled}
     \/ LastCall.err = Nil /\ LastCall.records = 0

\* C19: when the device answers the health command "not recognized" or
\* "disabled", or replies with no record, the health collector returns no
\* record and no error, and the health step leaves last_scrape_error as it
\* was.
C19_HealthNotSupportedIsNoError ==
  [][HealthNotSupported =>
       /\ ~LastReturn.failed /\ LastReturn.res = <<>>
       /\ ~healthErr'
       /\ lastScrapeError' = lastScrapeError]_vars

\* the commands of the optional collectors that decide "feature absent"
OptionalCommands ==
  {CmdBGPPeer, CmdBGPPeerLegacy, CmdPPPActive, CmdWirelessPrint, CmdRegistrationTable}

\* the last command of an optional collector was rejected as not recognized
\* or disabled
OptionalRejected ==
  /\ pc \in {"bgp", "ppp", "wlif", "wlc"} /\ CalledRun
  /\ LastCall.cmd \in OptionalCommands /\ Rejected(LastCall.err)

\* nothing abnormal happened so far but such rejections: no other command
\* failed, and the two mandatory commands returned a record
OnlyRejections ==
  /\ ConnectSucceeded
  /\ \A i \in DOMAIN called :
       /\ called[i].err # Nil =>
            called[i].cmd \in OptionalCommands /\ Rejected(called[i].err)
       /\ called[i].cmd \in {CmdSystemResource, CmdRouterboard} =>
            called[i].records > 0

FieldsParsed == probe.unit = "FieldTexts"

\* the records a collector returned
RecordsOf(r) == IF "res" \in DOMAIN r THEN r.res ELSE r.stats

\* the record the collector returns when every parsed field is good
GoodRecord(unit) ==
  RecordsOf(CallCollector(unit,
    FieldSentence(unit, [k \in DOMAIN ParsedFields(unit) |->
                           GoodText(ParsedFields(unit)[k][3])], FALSE)))[1]

\* the parsed fields whose text in sentence m is not the good one
BadAttrs(unit, m) ==
  {ParsedFields(unit)[k][2] : k \in {j \in DOMAIN ParsedFields(unit) :
     Get(m, ParsedFields(unit)[j][1]) # GoodText(ParsedFields(unit)[j][3])}}

\* the attributes that are the text of a field as the device gave it
RawAttrs == {"UptimeStr"}

\* the collector returned its record and no error
StillReturned == probe.r.err = Nil /\ Len(RecordsOf(probe.r)) = 1

\* C21: when the command succeeded and the record is there, a parsed field
\* (duration, byte count, integer, float) that is missing or does not
\* parse makes the collector return no error: it returns its record, with
\* the attribute of that field zero and every other attribute as it is
\* when the field is good.
C21_ParseFailureZeroesOneField ==
  FieldsParsed =>
    /\ StillReturned
    /\ \A attr \in DOMAIN RecordsOf(probe.r)[1] \ RawAttrs :
         RecordsOf(probe.r)[1][attr] =
           IF attr \in BadAttrs(probe.arg, probe.d[1]) THEN 0
           ELSE GoodRecord(probe.arg)[attr]

(***************************************************************************)
(* Requests at the same time                                               *)
(***************************************************************************)
\* C22: requests handled at the same time share no state: every command is
\* sent on a connection that the request sending it opened, to the target
\* of that request, and every record a request answers with was collected
\* by that request from its target, for the same and for different targets.
C22_RequestsIsolated ==
  /\ \A s \in server.sent :
       /\ server.conns[s.conn].by = s.by
       /\ server.conns[s.conn].address = server.target[s.by]
  /\ \A r \in Requests : \A j \in DOMAIN server.response[r] :
       /\ server.response[r][j].by = r
       /\ server.response[r][j].from = server.target[r]

\* two requests for the same target ran their commands in turn, one of them
\* reconnected after a failed command, and both were answered
C22_Witness ==
  /\ \A r \in Requests : server.pc[r] \in {"served", "closed"}
  /\ server.target[1] = server.target[2]
  /\ \A r \in Requests : server.ran[r] = Len(ServedCommands)
  /\ Len(server.conns) = 3
  /\ server.conns[1].by # server.conns[2].by /\ server.conns[2].by # server.conns[3].by
  /\ \A r \in Requests : server.response[r] # <<>>

(***************************************************************************)
(* The duration parser                                                     *)
(***************************************************************************)
DurationParsed == probe.unit = "parseMikrotikDuration"
DurationText == probe.d[1]

IsNumeric(c) == IsDigit(c) \/ c = "."

\* the places of the characters that end a group
UnitsAt(str) == {i \in DOMAIN str : ~IsNumeric(str[i])}

\* the text in front of the unit at place i, back to the unit before it
ValueAt(str, i) ==
  LET before == {j \in UnitsAt(str) : j < i}
      from == IF before = {} THEN 1
              ELSE 1 + CHOOSE j \in before : \A k \in before : k <= j
  IN SubSeq(str, from, i - 1)

IsInteger(v) == v # <<>> /\ AllDigits(v)
\* digits with at most one point among them
IsDecimal(v) ==
  /\ \E i \in DOMAIN v : IsDigit(v[i])
  /\ Cardinality({i \in DOMAIN v : v[i] = "."}) <= 1

\* the length of a unit
UnitLength(c) ==
  CASE c = "w" -> 604800 * Second
    [] c = "d" -> 86400 * Second
    [] c = "h" -> 3600 * Second
    [] c = "m" -> 60 * Second
    [] c = "s" -> Second

\* the cases of failure the claim lists
ListedFailure(str) ==
  \/ str = <<>>
  \/ \E i \in UnitsAt(str) :
       \/ ValueAt(str, i) = <<>>
       \/ str[i] \notin {"w", "d", "h", "m", "s"}
       \/ str[i] # "s" /\ ~IsInteger(ValueAt(str, i))
  \/ str # <<>> /\ IsNumeric(str[Len(str)])

\* a seconds group whose value is no decimal number
SecondsNotDecimal(str) ==
  \E i \in UnitsAt(str) : str[i] = "s" /\ ~IsDecimal(ValueAt(str, i))

\* value times unit length, summed over the groups at the places in units
RECURSIVE GroupSum(_, _)
GroupSum(str, units) ==
  IF units = {} THEN 0
  ELSE LET i == CHOOSE j \in units : TRUE
           v == ValueAt(str, i)
           amount == IF str[i] = "s" THEN ParseFloat(v).val
                     ELSE NatOf(v) * UnitLength(str[i])
       IN amount + GroupSum(str, units \ {i})

\* C23 as stated: the duration parser fails exactly when the text is empty,
\* a unit follows an empty buffer, the unit is none of w, d, h, m, s, a unit
\* other than s carries a value that is no integer, or the text ends in
\* digits without unit; otherwise it returns the sum over the groups of
\* value times unit length, fractions of a second kept.
C23_DurationFailsAsListed ==
  DurationParsed =>
    /\ probe.r.err # Nil <=> ListedFailure(DurationText)
    /\ probe.r.err = Nil =>
         probe.r.val = GroupSum(DurationText, UnitsAt(DurationText))

\* C23 amended: it also fails when the value of a seconds group is no
\* decimal number (a point alone, two points); a failure returns zero.
C23_DurationFailsAlsoOnBadSeconds ==
  DurationParsed =>
    /\ probe.r.err # Nil <=>
         (ListedFailure(DurationText) \/ SecondsNotDecimal(DurationText))
    /\ probe.r.err = Nil =>
         probe.r.val = GroupSum(DurationText, UnitsAt(DurationText))
    /\ probe.r.err # Nil => probe.r.val = 0

\* "1h5s" was parsed to one hour and five seconds
C23_Witness ==
  /\ DurationParsed
  /\ DurationText = <<"1", "h", "5", "s">>
  /\ probe.r.err = Nil /\ probe.r.val = 3600 * Second + 5 * Second

(***************************************************************************)
(* The order of the collectors                                             *)
(***************************************************************************)
\* the place of a collector in the order the claim gives
PlaceOf(name) ==
  CASE name = "GetSystemResources" -> 1
    [] name = "GetRouterboard" -> 2
    [] name = "GetInterfaceStats" -> 3
    [] name = "GetSystemHealth" -> 4
    [] name = "GetBGPPeerStats" -> 5
    [] name = "GetPPPActiveUsers" -> 6
    [] name = "FetchWirelessInterfaces" -> 7
    [] name = "FetchWirelessClients" -> 8

\* the collector a command belongs to, by the path it names
PlaceOfCommand(cmd) ==
  LET path == cmd.words[1] IN
  CASE path = "/system/resource/print" -> 1
    [] path = "/system/routerboard/print" -> 2
    [] path = "/interface/print" -> 3
    [] path = "/system/health/print" -> 4
    [] path \in {"/routing/bgp/peer/print", "/ip/bgp/peer/print"} -> 5
    [] path = "/ppp/active/print" -> 6
    [] path \in {"/interface/wireless/print", "/interface/wireless/monitor"} -> 7
    [] path = "/interface/wireless/registration-table/print" -> 8

\* whether the flag of the collector at a place is set; the first four
\* have none
FlagSet(place) ==
  CASE place = 5 -> collectBGP
    [] place = 6 -> collectPPP
    [] place \in {7, 8} -> collectWireless
    [] OTHER -> TRUE

\* C24: the collectors are invoked in the order system resources,
\* routerboard, interfaces, health, BGP, PPP, wireless interfaces, wireless
\* clients; the last four only when their flag is set, and every one whose
\* flag is set once the scrape got past it; the commands Run is called
\* with follow the same order, and none belongs to a disabled collector.
C24_FixedOrderDisabledSilent ==
  /\ \A i, j \in DOMAIN invoked :
       i < j => PlaceOf(invoked[i]) < PlaceOf(invoked[j])
  /\ \A i \in DOMAIN invoked : FlagSet(PlaceOf(invoked[i]))
  /\ \A i \in DOMAIN invoked : \A place \in 1..PlaceOf(invoked[i]) :
       FlagSet(place) => \E j \in 1..i : PlaceOf(invoked[j]) = place
  /\ \A i, j \in DOMAIN called :
       i < j => PlaceOfCommand(called[i].cmd) <= PlaceOfCommand(called[j].cmd)
  /\ \A i \in DOMAIN called :
       /\ FlagSet(PlaceOfCommand(called[i].cmd))
       /\ \E j \in DOMAIN invoked :
            PlaceOf(invoked[j]) = PlaceOfCommand(called[i].cmd)
  /\ \A i \in DOMAIN issued : FlagSet(PlaceOfCommand(issued[i]))

\* a scrape with PPP disabled ran the seven other collectors, the wireless
\* ones after BGP, and no PPP command was issued
C24_Witness ==
  /\ Returned /\ collectBGP /\ ~collectPPP /\ collectWireless
  /\ invoked = <<"GetSystemResources", "GetRouterboard", "GetInterfaceStats",
                 "GetSystemHealth", "GetBGPPeerStats",
                 "FetchWirelessInterfaces", "FetchWirelessClients">>
  /\ \E i \in DOMAIN called : PlaceOfCommand(called[i].cmd) = 8
  /\ \A i \in DOMAIN called : called[i].cmd # CmdPPPActive

(***************************************************************************)
(* A fault in the statistics loop                                          *)
(***************************************************************************)
StatsLoopPanicked == probe.unit = "GetInterfaceStatsPanicking"

\* the interfaces gathered when the loop came to the sentence that faulted:
\* those of the list with their details and the statistics of the sentences
\* before it
GatheredBeforeFault ==
  GetInterfaceStats(Connect(World).w, probe.d[1], probe.d[2],
                    [probe.d[3] EXCEPT !.re = SubSeq(@, 1, probe.arg - 1)]).stats

\* C25: when the merge of the statistics records faults, the interface
\* collector still returns, without error, every interface gathered before
\* the fault.
C25_FaultKeepsGathered ==
  StatsLoopPanicked =>
    /\ probe.r.err = Nil
    /\ probe.r.stats = GatheredBeforeFault

\* the half of C25 that holds: the collector returns without error
RecoveredWithoutError == StatsLoopPanicked => probe.r.err = Nil

(***************************************************************************)
(* The monitor queries of the wireless interfaces                          *)
(***************************************************************************)
WirelessFetched == probe.unit = "FetchWirelessInterfaces"
WirelessList == probe.d[1].re

\* the places in the list of the entries with a name and an id, in order
RECURSIVE Ascending(_)
Ascending(places) ==
  IF places = {} THEN <<>>
  ELSE LET least == CHOOSE i \in places : \A j \in places : i <= j
       IN <<least>> \o Ascending(places \ {least})

Eligible ==
  Ascending({i \in DOMAIN WirelessList :
               Get(WirelessList[i], "name") # <<>> /\ Get(WirelessList[i], ".id") # <<>>})

\* the calls of Run after the list command
MonitorCalls == Tail(probe.r.w.called)

\* the eligible entries whose own query returned at least one record
Answered ==
  SelectSeq([k \in DOMAIN Eligible |-> k],
            LAMBDA k : MonitorCalls[k].err = Nil /\ MonitorCalls[k].records >= 1)

\* C26: given the wireless list, FetchWirelessInterfaces makes one monitor
\* query per listed entry with a name and an id, in list order; whichever of
\* them fail, it returns no error and exactly the interfaces whose own query
\* returned at least one record, in list order, each with the network name
\* of the first record of its own reply.
C26_OneQueryEachFailuresSkipped ==
  WirelessFetched =>
    /\ probe.r.err = Nil
    /\ Len(MonitorCalls) = Len(Eligible)
    /\ \A k \in DOMAIN Eligible :
         MonitorCalls[k].cmd = CmdMonitor(WirelessList[Eligible[k]][".id"])
    /\ Len(probe.r.res) = Len(Answered)
    /\ \A n \in DOMAIN Answered :
         LET at == Eligible[Answered[n]] IN
           /\ probe.r.res[n].Name = WirelessList[at].name
           /\ probe.r.res[n].SSID = probe.d[2][at].re[1].ssid

\* of two listed interfaces the query of the first failed and that of the
\* second answered: the result is the second alone
C26_Witness ==
  /\ WirelessFetched
  /\ Len(Eligible) = 2
  /\ MonitorCalls[1].err # Nil /\ MonitorCalls[2].err = Nil
  /\ Len(probe.r.res) = 1
  /\ probe.r.res[1].Name = WirelessList[2].name
  /\ probe.r.res[1].SSID = MonitorSentenceB.ssid

(***************************************************************************)
(* The worker and the connection reference                                 *)
(***************************************************************************)
\* C27: whenever the worker of an execute call reads the session's
\* connection reference, the reference is set, even when the timeout branch
\* tore the session down first: no worker finds it missing.
C27_WorkerFindsConnection ==
  \A k \in DOMAIN workers : workers[k].st # "panicked"

(***************************************************************************)
(* Late deliveries                                                         *)
(***************************************************************************)
\* a worker that has not delivered yet finds both its channels empty: the
\* one send it makes fits the buffer, whoever receives or does not
RoomToDeliver ==
  \A k \in DOMAIN workers :
    workers[k].st # "done" => ~workers[k].replyCh /\ workers[k].errCh = Nil

\* C28: the reply or error an execute call returns was delivered by the
\* worker of that same call, which carries the command of that call; what a
\* worker delivers after its call timed out is never returned by a later
\* call, and delivering it never blocks the worker.
C28_ResultFromOwnWorker ==
  /\ (RunReturned("reply") \/ RunReturned("error")) =>
       /\ last.worker = Len(workers)
       /\ \A i \in DOMAIN sentOn :
            sentOn[i].run = last.worker => issued[i] = CmdOf(last.worker)
  /\ RoomToDeliver

\* the worker of the first call, which read the connection of the second,
\* delivered its reply late; the second call returned the reply of its own
C28_Witness ==
  /\ Len(workers) = 2
  /\ workers[1].st = "done" /\ workers[1].replyCh /\ workers[1].conn = 2
  /\ RunReturned("reply") /\ last.worker = 2 /\ workers[2].replyCh

(***************************************************************************)
(* Records of one metric and their labels                                  *)
(***************************************************************************)
RecordsEmitted == probe.unit = "Emitted"

NoTwoAlike(records) ==
  \A i, j \in DOMAIN records :
    i < j => ~(records[i].desc = records[j].desc
               /\ records[i].labels = records[j].labels)

\* the names in the reply are all different
NamesDiffer ==
  \A i, j \in DOMAIN probe.d[1] : i < j => probe.d[1][i].name # probe.d[1][j].name

\* C29: no two records emitted for one metric carry the same label values,
\* whatever the reply, two interfaces, peers or dial-up sessions of one name
\* included.
C29_NoTwoRecordsAlike == RecordsEmitted => NoTwoAlike(probe.r)

\* the part of C29 that holds: replies whose names are all different
NoTwoAlikeWhenNamesDiffer == (RecordsEmitted /\ NamesDiffer) => NoTwoAlike(probe.r)

(***************************************************************************)
(* Used memory and used storage                                            *)
(***************************************************************************)
SizesEmitted == probe.unit = "SystemResourcesEmitted"

\* the value of the record emitted for a metric
ValueOf(desc) ==
  LET at == CHOOSE i \in DOMAIN probe.r : probe.r[i].desc = desc IN probe.r[at].value

\* the number a size text stands for: 0 when it is no number
SizeOf(text) == IF text # <<>> /\ AllDigits(text) THEN NatOf(text) ELSE 0

\* C30: the used memory and used storage emitted never exceed the totals
\* emitted, also when the total is missing or no number while the free
\* value parses, and the storage values emitted are the device's kibibytes
\* times 1024.
C30_UsedNeverWraps ==
  SizesEmitted =>
    /\ ValueOf("memoryUsageDesc") <= ValueOf("totalMemoryDesc")
    /\ ValueOf("storageUsedBytesDesc") <= ValueOf("storageTotalBytesDesc")
    /\ ValueOf("storageTotalBytesDesc") = SizeOf(probe.d[1]["total-hdd-space"]) * 1024
    /\ ValueOf("storageFreeBytesDesc") = SizeOf(probe.d[1]["free-hdd-space"]) * 1024

\* the part of C30 that holds: totals no smaller than the free values, all
\* within the width after scaling
UsedIsDifference ==
  (/\ SizesEmitted
   /\ SizeOf(probe.d[1]["free-memory"]) <= SizeOf(probe.d[1]["total-memory"])
   /\ SizeOf(probe.d[1]["free-hdd-space"]) <= SizeOf(probe.d[1]["total-hdd-space"])
   /\ SizeOf(probe.d[1]["total-hdd-space"]) * 1024 < UintMod)
  => /\ ValueOf("memoryUsageDesc") =
          SizeOf(probe.d[1]["total-memory"]) - SizeOf(probe.d[1]["free-memory"])
     /\ ValueOf("storageUsedBytesDesc") =
          1024 * (SizeOf(probe.d[1]["total-hdd-space"])
                    - SizeOf(probe.d[1]["free-hdd-space"]))

=============================================================================
